---- MODULE Spec2Model ----
(***************************************************************************)
(* Tenant scoping and access control of the CRM backend: the organization  *)
(* resolver, the organization-scoped viewset base class and the resource   *)
(* viewsets built on it, as state machines over the relational store.      *)
(***************************************************************************)
EXTENDS Integers, FiniteSets, Sequences, TLC

(***************************************************************************)
(* The store's population.  Organization X is owned by user A and          *)
(* organization Y by user B; user C owns nothing.                          *)
(***************************************************************************)
Users == {"A", "B", "C"}
Orgs == {"X", "Y"}
RoleNames == {"Admin", "Staff"}

None == "None"

\* Organization.owner (apps/organizations/models.py): exactly one owner each.
owner_id(organization) == IF organization = "X" THEN "A" ELSE "B"

\* An organization reference as a request carries it.
NoRef == "absent"        \* the parameter is not supplied
Empty == ""              \* supplied, empty string
Ghost == "G"             \* a well-formed id that matches no organization
Malformed == "bad"       \* not a well-formed id
Refs == Orgs \cup {NoRef, Empty, Ghost, Malformed}

\* Rows of OrganizationMember; role is the name of a role of the same
\* organization, or None (role is a nullable foreign key).
MemberRows ==
    [organization : Orgs, user : Users, role : RoleNames \cup {None},
     is_active : BOOLEAN, invitation_accepted : BOOLEAN]

VARIABLES
    members,        \* the OrganizationMember table: a set of MemberRows
    companies,      \* the Company table: id -> row
    contacts,       \* the Contact table: id -> row
    opportunities,  \* the Opportunity table: id -> row
    emails,         \* the Email table: id -> row
    activities,     \* the Activity table: id -> row
    leads,          \* the Lead table: id -> row
    resp,           \* the response to the last request
    roles,          \* the Role table: <<organization, role>> -> row
    teams,          \* the Team table: id -> row
    invitations,    \* the Invitation table: id -> row; the id is the token
    accounts,       \* the User table: the users that have an account
    settings,       \* Organization.settings of every organization
    requests,       \* the accept requests in progress: request -> frame
    organizations,  \* the Organization table: the organizations that have a row
    creations,      \* the creation requests in progress: request -> frame
    passwords,      \* User.password of every user
    reset_tokens,   \* the PasswordResetToken table: id -> row; the id is the token
    resets          \* the reset requests in progress: request -> frame

\* The passwords, the reset tokens and the reset requests in progress.
resetVars == <<passwords, reset_tokens, resets>>

\* The Organization table and the requests that create organizations, and
\* the state of apps/accounts besides the User table.
authVars == <<organizations, creations, resetVars>>

\* The tables of apps/organizations besides OrganizationMember, the User
\* table and the accept requests in progress.
orgVars == <<roles, teams, invitations, accounts, settings, requests, authVars>>

\* The tables of the CRM resources.
crmVars == <<companies, contacts, opportunities, emails, activities, leads>>

vars == <<members, crmVars, resp, orgVars>>

(***************************************************************************)
(* apps/organizations/services.py                                          *)
(***************************************************************************)
\* user_is_org_admin: the owner, or an active member whose role is "Admin".
user_is_org_admin(user, organization) ==
    \/ owner_id(organization) = user
    \/ \E m \in members :
          /\ m.organization = organization
          /\ m.user = user
          /\ m.is_active
          /\ m.role \in {"Admin"}

\* user_in_organization without the is_active filter.
user_in_organization_any_row(user, organization) ==
    \/ owner_id(organization) = user
    \/ \E m \in members : m.organization = organization /\ m.user = user

\* user_in_organization: the owner, or any active member.
user_in_organization(user, organization) ==
    \/ owner_id(organization) = user
    \/ \E m \in members :
          /\ m.organization = organization
          /\ m.user = user
          /\ m.is_active

\* organizations_for_user: Q(owner=user) | Q(members__user=user,
\* members__is_active=True), distinct.  Every caller is authenticated
\* (DEFAULT_PERMISSION_CLASSES is IsAuthenticated).
organizations_for_user(user) ==
    {o \in Orgs :
        \/ owner_id(o) = user
        \/ \E m \in members : m.organization = o /\ m.user = user /\ m.is_active}

organization_ids_for_user(user) == organizations_for_user(user)

(***************************************************************************)
(* core/viewsets.py: the resolver                                          *)
(***************************************************************************)
\* Python truthiness of a request parameter: absent and "" are falsy.
Falsy(r) == r \in {NoRef, Empty}

\* Or with the operands' precedence reversed.
OrLastWins(a, b) == IF Falsy(b) THEN a ELSE b

\* Python's `a or b`.
Or(a, b) == IF Falsy(a) THEN b ELSE a

\* What a view raises (exc) or the organization it resolved.
Outcome(exc, field, organization) ==
    [exc |-> exc, field |-> field, organization |-> organization]

\* _get_request_organization.  Organization.objects.get(id=...) raises
\* DoesNotExist for an unknown id, which the resolver turns into a
\* ValidationError on "organization"; for a value that is no UUID it raises
\* django's own ValidationError, which nothing catches (a server error).
get_request_organization(user, body, query, kwarg) ==
    LET org_id == Or(Or(body, query), kwarg) IN
    IF Falsy(org_id) THEN Outcome("", "", None)
    ELSE IF org_id = Malformed THEN Outcome("ServerError", "", None)
    ELSE IF org_id \notin Orgs THEN Outcome("ValidationError", "organization", None)
    ELSE IF ~user_in_organization(user, org_id) THEN Outcome("PermissionDenied", "", None)
    ELSE Outcome("", "", org_id)

\* The status the exception handler gives each exception class
\* (core/exceptions.py hands the status of DRF's handler through; an
\* exception DRF does not know is a 500).
StatusOf(exc) ==
    CASE exc = "ValidationError" -> 400
      [] exc = "BadRequest" -> 400
      [] exc = "PermissionDenied" -> 403
      [] exc = "NotFound" -> 404
      [] exc = "ServerError" -> 500
      [] exc = "IntegrityError" -> 500

\* A response: the request that was made (op, user, body/query/kwarg
\* organization references, target id), and what came back: status, the
\* exception class and field behind an error, the organization the resolver
\* returned, the ids of the rows returned (rows) or created (created).
Response(op, user, body, query, kwarg, target, status, exc, field, organization, rows, created) ==
    [op |-> op, user |-> user, body |-> body, query |-> query, kwarg |-> kwarg,
     target |-> target, status |-> status, exc |-> exc, field |-> field,
     organization |-> organization, rows |-> rows, created |-> created]

Failure(op, user, body, query, kwarg, target, exc, field) ==
    Response(op, user, body, query, kwarg, target, StatusOf(exc), exc, field, None, {}, 0)

NoResponse == Response("", None, NoRef, NoRef, NoRef, 0, 0, "", "", None, {}, 0)

(***************************************************************************)
(* core/exceptions.py and core/renderers.py                                *)
(***************************************************************************)
\* The exceptions rest_framework's exception_handler turns into a response
\* (APIException, Http404 and PermissionDenied); for any other exception it
\* returns None and the exception goes on to Django's server-error page.
HandledExceptions == {"ValidationError", "PermissionDenied", "NotFound"}

\* response.exception: set on the responses the exception handler made.
\* A response the view returned itself does not have it, whatever its
\* status.
response_exception(response) == response.exc \in HandledExceptions

\* custom_exception_handler: the body of an exception response.  The code
\* is exc.default_code in upper case, or the status text.
custom_exception_handler(response) ==
    [success |-> FALSE,
     code |-> CASE response.exc = "ValidationError" -> "INVALID"
                [] response.exc = "PermissionDenied" -> "PERMISSION_DENIED"
                [] response.exc = "NotFound" -> "NOT_FOUND"
                [] OTHER -> "ERROR",
     message |-> "detail"]

\* StandardJSONRenderer.render: a response that is not an exception
\* response is wrapped as success; an exception response keeps the body the
\* exception handler gave it.
render(response) ==
    IF ~response_exception(response)
    THEN [success |-> TRUE, code |-> "", message |-> "Operation successful"]
    ELSE custom_exception_handler(response)

(***************************************************************************)
(* The tables of tenant-owned resources.  Every row carries the foreign    *)
(* key `organization` of core/models.py OrganizationScopedModel.           *)
(***************************************************************************)
MaxCompanies == 2
MaxContacts == 2
MaxOpportunities == 1
MaxEmails == 1
MaxActivities == 1
MaxLeads == 1

CompanyIds == 1..MaxCompanies
ContactIds == 1..MaxContacts
OpportunityIds == 1..MaxOpportunities
EmailIds == 1..MaxEmails
ActivityIds == 1..MaxActivities
LeadIds == 1..MaxLeads

\* A table is a function from the ids of its rows to the rows.
Rows(table) == DOMAIN table

\* The id a new row gets from the pool `ids`, 0 when the pool is used up.
NewId(table, ids) ==
    IF ids \ DOMAIN table = {} THEN 0
    ELSE CHOOSE id \in ids \ DOMAIN table :
            \A other \in ids \ DOMAIN table : id <= other

Insert(table, id, row) ==
    [i \in DOMAIN table \cup {id} |-> IF i = id THEN row ELSE table[i]]

Delete(table, deleted) == [i \in DOMAIN table \ deleted |-> table[i]]

EmptyTable == <<>>

\* The membership rows the store may hold for one (organization, user)
\* pair: none, or one (unique_together = ("organization", "user")).
MemberChoices(organization, user) ==
    {{}} \cup {{m} : m \in {r \in MemberRows :
                               r.organization = organization /\ r.user = user}}

(***************************************************************************)
(* core/viewsets.py: OrganizationScopedViewSet                             *)
(***************************************************************************)
\* A queryset, or the exception raised while building it.
QuerySet(exc, field, ids) == [exc |-> exc, field |-> field, ids |-> ids]

\* get_queryset without the filter on the caller's organizations.
get_queryset_unscoped(table, user, query) ==
    IF query = Malformed THEN QuerySet("ServerError", "", {})
    ELSE QuerySet("", "",
            {id \in Rows(table) : Falsy(query) \/ table[id].organization = query})

\* OrganizationScopedViewSet.get_queryset: rows of the caller's
\* organizations, narrowed by the query parameter when it is non-empty.
\* filter(organization_id=<no UUID>) raises django's ValidationError.
get_queryset(table, user, query) ==
    IF query = Malformed THEN QuerySet("ServerError", "", {})
    ELSE QuerySet("", "",
            {id \in Rows(table) :
                /\ table[id].organization \in organization_ids_for_user(user)
                /\ (Falsy(query) \/ table[id].organization = query)})

\* ContactViewSet.get_queryset and LeadViewSet.get_queryset: the base
\* queryset, then the resolver, then the rows of the resolved organization.
resolved_get_queryset(table, user, body, query) ==
    LET queryset == get_queryset(table, user, query)
        resolved == get_request_organization(user, body, query, NoRef)
    IN  IF queryset.exc # "" THEN queryset
        ELSE IF resolved.exc # "" THEN QuerySet(resolved.exc, resolved.field, {})
        ELSE IF resolved.organization # None
             THEN QuerySet("", "", {id \in queryset.ids :
                                      table[id].organization = resolved.organization})
        ELSE queryset

\* on_delete=SET_NULL: the rows of `table` whose `field` names a deleted
\* row lose the reference.
SetNull(table, field, deleted) ==
    [id \in DOMAIN table |->
        IF table[id][field] \in deleted
        THEN [table[id] EXCEPT ![field] = 0]
        ELSE table[id]]

(***************************************************************************)
(* apps/companies/views.py: CompanyViewSet, the base class as it is        *)
(***************************************************************************)
\* GET /companies/: ListModelMixin.list builds the queryset, then the
\* serializer, whose context calls the resolver.
CompanyList(user, body, query) ==
    LET queryset == get_queryset(companies, user, query)
        resolved == get_request_organization(user, body, query, NoRef)
    IN  /\ resp' =
             IF queryset.exc # ""
             THEN Failure("company.list", user, body, query, NoRef, 0, queryset.exc, queryset.field)
             ELSE IF resolved.exc # ""
             THEN Failure("company.list", user, body, query, NoRef, 0, resolved.exc, resolved.field)
             ELSE Response("company.list", user, body, query, NoRef, 0, 200, "", "",
                           resolved.organization, queryset.ids, 0)
        /\ UNCHANGED <<orgVars, members, companies, contacts, opportunities, emails, activities, leads>>

\* GET /companies/<id>/: get_object raises Http404 for a row outside the
\* queryset, before the serializer is built.
CompanyRetrieve(user, id, body, query) ==
    LET queryset == get_queryset(companies, user, query)
        resolved == get_request_organization(user, body, query, NoRef)
    IN  /\ resp' =
             IF queryset.exc # ""
             THEN Failure("company.retrieve", user, body, query, NoRef, id, queryset.exc, queryset.field)
             ELSE IF id \notin queryset.ids
             THEN Failure("company.retrieve", user, body, query, NoRef, id, "NotFound", "")
             ELSE IF resolved.exc # ""
             THEN Failure("company.retrieve", user, body, query, NoRef, id, resolved.exc, resolved.field)
             ELSE Response("company.retrieve", user, body, query, NoRef, id, 200, "", "",
                           resolved.organization, {id}, 0)
        /\ UNCHANGED <<orgVars, members, companies, contacts, opportunities, emails, activities, leads>>

\* perform_create stamping the `organization` query parameter as it came.
perform_create_organization_from_query(resolved, body, query) ==
    IF query \in Orgs THEN query ELSE resolved.organization

\* perform_create: the resolved organization is required and is what
\* serializer.save stamps on the row (`organization` is read-only in every
\* serializer, so the body's value never reaches the row by itself).
perform_create_organization(resolved, body, query) == resolved.organization

\* POST /companies/.
CompanyCreate(user, body, query) ==
    LET resolved == get_request_organization(user, body, query, NoRef)
        id == NewId(companies, CompanyIds)
    IN  /\ id # 0
        /\ IF resolved.exc # ""
           THEN /\ resp' = Failure("company.create", user, body, query, NoRef, 0, resolved.exc, resolved.field)
                /\ UNCHANGED companies
           ELSE IF resolved.organization = None
           THEN /\ resp' = Failure("company.create", user, body, query, NoRef, 0, "ValidationError", "organization")
                /\ UNCHANGED companies
           ELSE /\ companies' = Insert(companies, id,
                                    [organization |-> perform_create_organization(resolved, body, query)])
                /\ resp' = Response("company.create", user, body, query, NoRef, 0, 201, "", "",
                                    resolved.organization, {}, id)
        /\ UNCHANGED <<orgVars, members, contacts, opportunities, emails, activities, leads>>

\* DELETE /companies/<id>/: get_object, then the row is deleted; references
\* to it are set to null.
CompanyDestroy(user, id, body, query) ==
    LET queryset == get_queryset(companies, user, query) IN
    IF queryset.exc # "" \/ id \notin queryset.ids
    THEN /\ resp' = Failure("company.destroy", user, body, query, NoRef, id,
                            IF queryset.exc # "" THEN queryset.exc ELSE "NotFound", "")
         /\ UNCHANGED <<orgVars, members, companies, contacts, opportunities, emails, activities, leads>>
    ELSE /\ companies' = Delete(companies, {id})
         /\ contacts' = SetNull(contacts, "company", {id})
         /\ opportunities' = SetNull(opportunities, "company", {id})
         /\ resp' = Response("company.destroy", user, body, query, NoRef, id, 204, "", "", None, {}, 0)
         /\ UNCHANGED <<orgVars, members, emails, activities, leads>>

(***************************************************************************)
(* apps/dashboard/views.py: DashboardMetricsViewSet.list, routed as        *)
(* organizations/<organization_id>/dashboard/stats (the one route that     *)
(* carries the URL path segment)                                           *)
(***************************************************************************)
DashboardStats(user, body, query, kwarg) ==
    LET resolved == get_request_organization(user, body, query, kwarg) IN
    /\ ~Falsy(kwarg)
    /\ resp' =
         IF resolved.exc # ""
         THEN Failure("dashboard.stats", user, body, query, kwarg, 0, resolved.exc, resolved.field)
         ELSE IF resolved.organization = None
         THEN Failure("dashboard.stats", user, body, query, kwarg, 0, "BadRequest", "")
         ELSE Response("dashboard.stats", user, body, query, kwarg, 0, 200, "", "",
                       resolved.organization,
                       {id \in Rows(contacts) : contacts[id].organization = resolved.organization}, 0)
    /\ UNCHANGED <<orgVars, members, companies, contacts, opportunities, emails, activities, leads>>

(***************************************************************************)
(* apps/organizations/views.py: OrganizationViewSet.update_member_role     *)
(***************************************************************************)
\* A role as a request names it: a role of some organization, or null.
NoRole == <<None, None>>
RoleRefs == {NoRole} \cup (Orgs \X RoleNames)

\* PATCH /organizations/<pk>/members/<user_id>/role.  get_object looks the
\* organization up among the caller's; _ensure_admin; _get_member_by_user.
\* The handler then saves an OrganizationMemberUpdateSerializer over
\* {"role": ...}, but the serializer inherits `role` as a
\* SerializerMethodField, which is read-only: the role of the body is
\* dropped before validation, and save writes nothing.
UpdateMemberRole(user, organization, member_user, role) ==
    LET exc ==
            IF organization \notin organizations_for_user(user) THEN "NotFound"
            ELSE IF ~user_is_org_admin(user, organization) THEN "PermissionDenied"
            ELSE IF ~\E m \in members : m.organization = organization /\ m.user = member_user
                 THEN "NotFound"
            ELSE ""
    IN  /\ resp' = IF exc # ""
                   THEN Failure("member.role", user, member_user, NoRef, organization, 0, exc, "")
                   ELSE Response("member.role", user, member_user, NoRef, organization, 0, 200,
                                 "", "", organization, {}, 0)
        /\ UNCHANGED <<orgVars, members, companies, contacts, opportunities, emails, activities, leads>>

(***************************************************************************)
(* apps/organizations/views.py: OrganizationViewSet, roles                 *)
(***************************************************************************)
\* get_object: the organization is looked up among the caller's
\* (get_queryset); NotFound otherwise.
get_object(user, organization) ==
    IF organization \notin organizations_for_user(user) THEN "NotFound" ELSE ""

\* _ensure_admin that lets every active member through.
ensure_admin_any_member(user, organization) ==
    IF user_in_organization(user, organization) THEN "" ELSE "PermissionDenied"

\* _ensure_admin: PermissionDenied unless user_is_org_admin.
ensure_admin(user, organization) ==
    IF user_is_org_admin(user, organization) THEN "" ELSE "PermissionDenied"

\* The opening of every admin-gated handler: get_object, then _ensure_admin.
AdminGate(user, organization) ==
    IF get_object(user, organization) # "" THEN get_object(user, organization)
    ELSE ensure_admin(user, organization)

\* The response of an OrganizationViewSet handler; `arg` is the name the
\* URL or the body carries (a role, a user), `target` a numeric id.  The
\* response to update_role also records the name the body asked for.
OrgResponse(op, user, organization, arg, target, status, exc) ==
    Response(op, user, arg, NoRef, organization, target, status, exc, "", organization, {}, 0)

OrgFailure(op, user, organization, arg, target, exc) ==
    OrgResponse(op, user, organization, arg, target, StatusOf(exc), exc)

\* Role ids: a role is referred to by the name it was created under; an
\* organization holds its two system roles and at most one custom role.
CustomRoleIds == {"Custom"}
RoleIds == RoleNames \cup CustomRoleIds

\* The names a request may give a role; NoRef when the body has no "name".
RoleNameInputs == RoleNames \cup {"Custom", "Renamed"}

\* RoleSerializer.validate: another role of the organization has the name.
RoleNameTaken(organization, name, instance) ==
    \E r \in DOMAIN roles :
        /\ r[1] = organization
        /\ r # instance
        /\ roles[r].name = name

\* POST /organizations/<pk>/roles -> create_role.  "name" is a required
\* field of RoleSerializer; is_system is read-only, so the new role is not
\* a system role.
CreateRole(user, organization, name) ==
    /\ \E id \in CustomRoleIds : <<organization, id>> \notin DOMAIN roles
    /\ LET id == CHOOSE i \in CustomRoleIds : <<organization, i>> \notin DOMAIN roles
           exc == IF AdminGate(user, organization) # "" THEN AdminGate(user, organization)
                  ELSE IF name = NoRef THEN "ValidationError"
                  ELSE IF RoleNameTaken(organization, name, NoRole) THEN "ValidationError"
                  ELSE ""
       IN  IF exc # ""
           THEN /\ resp' = OrgFailure("role.create", user, organization, name, 0, exc)
                /\ UNCHANGED roles
           ELSE /\ roles' = Insert(roles, <<organization, id>>,
                                   [name |-> name, is_system_role |-> FALSE])
                /\ resp' = OrgResponse("role.create", user, organization, name, 0, 201, "")
    /\ UNCHANGED <<members, crmVars, teams, invitations, accounts, settings, requests, authVars>>

\* PATCH /organizations/<pk>/roles/<role_id> -> update_role.  The name of a
\* system role cannot be in the body; "name" is the only field of the body
\* that RoleSerializer writes to the row.
UpdateRole(user, organization, role, name) ==
    LET r == <<organization, role>>
        exc == IF AdminGate(user, organization) # "" THEN AdminGate(user, organization)
               ELSE IF r \notin DOMAIN roles THEN "NotFound"
               ELSE IF roles[r].is_system_role /\ name # NoRef THEN "ValidationError"
               ELSE IF name # NoRef /\ RoleNameTaken(organization, name, r) THEN "ValidationError"
               ELSE ""
    IN  /\ IF exc # ""
           THEN /\ resp' = [OrgFailure("role.update", user, organization, role, 0, exc)
                                EXCEPT !.query = name]
                /\ UNCHANGED roles
           ELSE /\ roles' = IF name = NoRef THEN roles
                            ELSE [roles EXCEPT ![r].name = name]
                /\ resp' = [OrgResponse("role.update", user, organization, role, 0, 200, "")
                                EXCEPT !.query = name]
        /\ UNCHANGED <<members, crmVars, teams, invitations, accounts, settings, requests, authVars>>

\* The methods role_detail is registered for.
RoleDetailMethods == {"PATCH", "DELETE"}

\* PATCH or DELETE /organizations/<pk>/roles/<role_id> -> role_detail: the
\* handler looks the role up and returns it, whatever the method.  It is
\* the only handler registered for DELETE on a role.
RoleDetail(user, organization, role, method) ==
    LET exc == IF get_object(user, organization) # "" THEN "NotFound"
               ELSE IF <<organization, role>> \notin DOMAIN roles THEN "NotFound"
               ELSE ""
        op == IF method = "DELETE" THEN "role.delete" ELSE "role.detail"
    IN  /\ resp' = IF exc # ""
                   THEN OrgFailure(op, user, organization, role, 0, exc)
                   ELSE OrgResponse(op, user, organization, role, 0, 200, "")
        /\ UNCHANGED <<members, crmVars, orgVars>>

(***************************************************************************)
(* apps/organizations/views.py: OrganizationViewSet, members and settings  *)
(***************************************************************************)
\* POST /organizations/<pk>/members -> members.  The handler returns the
\* list of members for every method; the statements after that return,
\* which validate and save an OrganizationMemberCreateSerializer, are never
\* executed.  `member_user` is the user the body asks to add.
MembersPost(user, organization, member_user) ==
    /\ resp' = IF get_object(user, organization) # ""
               THEN OrgFailure("member.create", user, organization, member_user, 0, "NotFound")
               ELSE OrgResponse("member.create", user, organization, member_user, 0, 200, "")
    /\ UNCHANGED <<members, crmVars, orgVars>>

\* The methods member_detail is registered for.
MemberDetailMethods == {"PATCH", "DELETE"}

\* PATCH or DELETE /organizations/<pk>/members/<user_id> -> member_detail.
\* After get_object and _ensure_admin the handler reads the name member_id,
\* which it does not define: the NameError surfaces as a server error
\* before the owner check and before any write.
MemberDetail(user, organization, member_user, method) ==
    LET exc == IF AdminGate(user, organization) # "" THEN AdminGate(user, organization)
               ELSE "ServerError"
        op == IF method = "DELETE" THEN "member.delete" ELSE "member.update"
    IN  /\ resp' = OrgFailure(op, user, organization, member_user, 0, exc)
        /\ UNCHANGED <<members, crmVars, orgVars>>

\* The values of Organization.settings.
SettingsValues == {0, 1}

\* PATCH /organizations/<pk>/settings -> organization_settings.
PatchSettings(user, organization, value) ==
    LET exc == AdminGate(user, organization)
    IN  /\ IF exc # ""
           THEN /\ resp' = OrgFailure("settings.patch", user, organization, NoRef, 0, exc)
                /\ UNCHANGED settings
           ELSE /\ settings' = [settings EXCEPT ![organization] = value]
                /\ resp' = OrgResponse("settings.patch", user, organization, NoRef, 0, 200, "")
        /\ UNCHANGED <<members, crmVars, roles, teams, invitations, accounts, requests, authVars>>

(***************************************************************************)
(* apps/organizations/views.py: OrganizationViewSet, teams                 *)
(***************************************************************************)
MaxTeams == 1
TeamIds == 1..MaxTeams
TeamNames == {"T"}

\* TeamSerializer.validate: another team of the organization has the name.
TeamNameTaken(organization, name, instance) ==
    \E id \in Rows(teams) :
        /\ id # instance
        /\ teams[id].organization = organization
        /\ teams[id].name = name

\* The users that have a membership row in the organization.
MemberUsers(organization) == {m.user : m \in {r \in members : r.organization = organization}}

\* Team.objects.get(id=team_id, organization=organization).
TeamFound(organization, team) ==
    team \in Rows(teams) /\ teams[team].organization = organization

\* POST /organizations/<pk>/teams -> create_team, without member_ids.
CreateTeam(user, organization, name) ==
    /\ NewId(teams, TeamIds) # 0
    /\ LET exc == IF AdminGate(user, organization) # "" THEN AdminGate(user, organization)
                  ELSE IF TeamNameTaken(organization, name, 0) THEN "ValidationError"
                  ELSE ""
           id == NewId(teams, TeamIds)
       IN  IF exc # ""
           THEN /\ resp' = OrgFailure("team.create", user, organization, name, 0, exc)
                /\ UNCHANGED teams
           ELSE /\ teams' = Insert(teams, id, [organization |-> organization,
                                               name |-> name, members |-> {}])
                /\ resp' = OrgResponse("team.create", user, organization, name, id, 201, "")
    /\ UNCHANGED <<members, crmVars, roles, invitations, accounts, settings, requests, authVars>>

\* PATCH /organizations/<pk>/teams/<team_id> -> update_team with member_ids
\* in the body: TeamSerializer.update sets the team's members to the rows
\* of the organization among member_ids.
UpdateTeam(user, organization, team, member_ids) ==
    LET exc == IF AdminGate(user, organization) # "" THEN AdminGate(user, organization)
               ELSE IF ~TeamFound(organization, team) THEN "NotFound"
               ELSE ""
    IN  /\ IF exc # ""
           THEN /\ resp' = OrgFailure("team.update", user, organization, NoRef, team, exc)
                /\ UNCHANGED teams
           ELSE /\ teams' = [teams EXCEPT ![team].members =
                                 member_ids \cap MemberUsers(organization)]
                /\ resp' = OrgResponse("team.update", user, organization, NoRef, team, 200, "")
        /\ UNCHANGED <<members, crmVars, roles, invitations, accounts, settings, requests, authVars>>

\* DELETE /organizations/<pk>/teams/<team_id> -> delete_team.  The rows of
\* the many-to-many tables that name the team go with it.
DeleteTeam(user, organization, team) ==
    LET exc == IF AdminGate(user, organization) # "" THEN AdminGate(user, organization)
               ELSE IF ~TeamFound(organization, team) THEN "NotFound"
               ELSE ""
    IN  /\ IF exc # ""
           THEN /\ resp' = OrgFailure("team.delete", user, organization, NoRef, team, exc)
                /\ UNCHANGED <<teams, invitations>>
           ELSE /\ teams' = Delete(teams, {team})
                /\ invitations' = [i \in DOMAIN invitations |->
                                       [invitations[i] EXCEPT !.teams = @ \ {team}]]
                /\ resp' = OrgResponse("team.delete", user, organization, NoRef, team, 200, "")
        /\ UNCHANGED <<members, crmVars, roles, accounts, settings, requests, authVars>>

\* POST /organizations/<pk>/teams/<team_id>/members -> add_team_members.
AddTeamMembers(user, organization, team, member_ids) ==
    LET exc == IF AdminGate(user, organization) # "" THEN AdminGate(user, organization)
               ELSE IF ~TeamFound(organization, team) THEN "NotFound"
               ELSE IF member_ids = {} THEN "ValidationError"
               ELSE ""
    IN  /\ IF exc # ""
           THEN /\ resp' = OrgFailure("team.add_members", user, organization, NoRef, team, exc)
                /\ UNCHANGED teams
           ELSE /\ teams' = [teams EXCEPT ![team].members =
                                 @ \cup (member_ids \cap MemberUsers(organization))]
                /\ resp' = OrgResponse("team.add_members", user, organization, NoRef, team, 200, "")
        /\ UNCHANGED <<members, crmVars, roles, invitations, accounts, settings, requests, authVars>>

\* DELETE /organizations/<pk>/teams/<team_id>/members/<member_id> ->
\* remove_team_member.
RemoveTeamMember(user, organization, team, member_user) ==
    LET exc == IF AdminGate(user, organization) # "" THEN AdminGate(user, organization)
               ELSE IF ~TeamFound(organization, team) THEN "NotFound"
               ELSE IF member_user \notin MemberUsers(organization) THEN "NotFound"
               ELSE ""
    IN  /\ IF exc # ""
           THEN /\ resp' = OrgFailure("team.remove_member", user, organization, member_user, team, exc)
                /\ UNCHANGED teams
           ELSE /\ teams' = [teams EXCEPT ![team].members = @ \ {member_user}]
                /\ resp' = OrgResponse("team.remove_member", user, organization, member_user, team, 200, "")
        /\ UNCHANGED <<members, crmVars, roles, invitations, accounts, settings, requests, authVars>>

(***************************************************************************)
(* apps/organizations/views.py: OrganizationViewSet, invitations           *)
(***************************************************************************)
MaxInvitations == 2
InvitationIds == 1..MaxInvitations

\* Invitation.Status
PENDING == "pending"
ACCEPTED == "accepted"
EXPIRED == "expired"
CANCELLED == "cancelled"

\* An e-mail address is the address of the user of that name, whether or
\* not that user has an account yet.
Emails == Users

\* The address of user C written with an upper-case domain, as an
\* invitation may carry it (EmailField keeps the case).
CUpper == "C@EXAMPLE.COM"

\* UserManager.create_user, self.normalize_email(email): the domain part is
\* put in lower case.  The addresses in Emails are in that form.
normalize_email(email) == IF email = CUpper THEN "C" ELSE email

\* User.password: the password an account was created with, and the
\* passwords a reset request may carry.
InitialPassword == "p0"
Passwords == {"p1", "p2"}

\* A comparison that accepts every user.
EmailNeverDiffers(user_email, invitation_email) == FALSE

\* user.email != invitation.email (accept view, line 328).
EmailDiffers(user_email, invitation_email) == user_email # invitation_email

\* A status check that refuses nothing.
NeverRefused(status) == FALSE

\* A status check that refuses accepted invitations only.
RefusesAcceptedOnly(status) == status = ACCEPTED

\* invitation.status != Invitation.Status.PENDING: the check that opens
\* cancel_invitation, resend_invitation and the accept view.
NotPending(status) == status # PENDING

\* Invitation.mark_accepted that leaves accepted_at unset.
mark_accepted_without_timestamp(invitation) == [invitation EXCEPT !.status = ACCEPTED]

\* Invitation.mark_accepted: status and accepted_at are set.
mark_accepted(invitation) == [invitation EXCEPT !.status = ACCEPTED, !.accepted_at = TRUE]

\* unique_together = ("organization", "email", "status"): another row has
\* the organization and e-mail of row `id` and the status `status`.
InvitationStatusTaken(id, status) ==
    \E other \in Rows(invitations) \ {id} :
        /\ invitations[other].organization = invitations[id].organization
        /\ invitations[other].email = invitations[id].email
        /\ invitations[other].status = status

\* Invitation.objects.get(id=invitation_id, organization=organization).
InvitationFound(organization, id) ==
    id \in Rows(invitations) /\ invitations[id].organization = organization

\* InvitationSerializer.validate without the check for a pending invitation:
\* only the membership of the invited user is looked at.
InvitationInvalidForMembersOnly(organization, email) ==
    email \in accounts /\ email \in MemberUsers(organization)

\* InvitationSerializer.validate: the e-mail belongs to a user who has a
\* membership row in the organization, or a pending invitation of the
\* organization carries it.
InvitationInvalid(organization, email) ==
    \/ email \in accounts /\ email \in MemberUsers(organization)
    \/ \E id \in Rows(invitations) :
          /\ invitations[id].organization = organization
          /\ invitations[id].email = email
          /\ invitations[id].status = PENDING

\* InvitationSerializer.create, lines 505-507: a token is drawn until no
\* invitation carries it.
FreeTokens == InvitationIds \ Rows(invitations)

\* timedelta(days=7): expires_at is this many days after the creation.
InvitationDays == 7

\* POST /organizations/<pk>/invitations -> send_invitation.  The serializer
\* has no writable role field, so the invitation is created without a role;
\* team_ids are taken from the body and filtered to the organization's
\* teams; the token is a fresh one; expires_at is seven days ahead, so the
\* invitation is not expired when it is created.  validate has excluded a
\* pending invitation of the organization and e-mail, so the INSERT does not
\* break the uniqueness constraint.  (The table holds MaxInvitations rows at
\* most: an invite that would add one more is not sent.)
SendInvitation(user, organization, email, team_ids) ==
    /\ LET exc == IF AdminGate(user, organization) # "" THEN AdminGate(user, organization)
                  ELSE IF InvitationInvalid(organization, email) THEN "ValidationError"
                  ELSE ""
       IN  IF exc # ""
           THEN /\ resp' = OrgFailure("invitation.send", user, organization, email, 0, exc)
                /\ UNCHANGED invitations
           ELSE \E token \in FreeTokens :
                /\ invitations' = Insert(invitations, token,
                      [organization |-> organization, email |-> email, role |-> None,
                       teams |-> {t \in team_ids : TeamFound(organization, t)},
                       status |-> PENDING, expires_after |-> InvitationDays,
                       expired |-> FALSE, accepted_at |-> FALSE])
                /\ resp' = OrgResponse("invitation.send", user, organization, email, token, 201, "")
    /\ UNCHANGED <<members, crmVars, roles, teams, accounts, settings, requests, authVars>>

\* GET /organizations/<pk>/invitations -> invitations.
InvitationList(user, organization) ==
    LET exc == AdminGate(user, organization)
    IN  /\ resp' = IF exc # ""
                   THEN OrgFailure("invitation.list", user, organization, NoRef, 0, exc)
                   ELSE Response("invitation.list", user, NoRef, NoRef, organization, 0, 200, "", "",
                                 organization,
                                 {id \in Rows(invitations) :
                                     invitations[id].organization = organization}, 0)
        /\ UNCHANGED <<members, crmVars, orgVars>>

\* GET /organizations/<pk>/invitations/<invitation_id> -> invitation_detail.
InvitationDetail(user, organization, id) ==
    LET exc == IF AdminGate(user, organization) # "" THEN AdminGate(user, organization)
               ELSE IF ~InvitationFound(organization, id) THEN "NotFound"
               ELSE ""
    IN  /\ resp' = IF exc # ""
                   THEN OrgFailure("invitation.detail", user, organization, NoRef, id, exc)
                   ELSE OrgResponse("invitation.detail", user, organization, NoRef, id, 200, "")
        /\ UNCHANGED <<members, crmVars, orgVars>>

\* POST or PATCH /organizations/<pk>/invitations/<invitation_id>/cancel ->
\* cancel_invitation.  Invitation.cancel saves the status; the save breaks
\* the uniqueness constraint when a cancelled invitation of the same
\* organization and e-mail exists already.
CancelInvitation(user, organization, id) ==
    LET exc == IF AdminGate(user, organization) # "" THEN AdminGate(user, organization)
               ELSE IF ~InvitationFound(organization, id) THEN "NotFound"
               ELSE IF NotPending(invitations[id].status) THEN "ValidationError"
               ELSE IF InvitationStatusTaken(id, CANCELLED) THEN "IntegrityError"
               ELSE ""
    IN  /\ IF exc # ""
           THEN /\ resp' = OrgFailure("invitation.cancel", user, organization, NoRef, id, exc)
                /\ UNCHANGED invitations
           ELSE /\ invitations' = [invitations EXCEPT ![id].status = CANCELLED]
                /\ resp' = OrgResponse("invitation.cancel", user, organization, NoRef, id, 200, "")
        /\ UNCHANGED <<members, crmVars, roles, teams, accounts, settings, requests, authVars>>

\* POST /organizations/<pk>/invitations/<invitation_id>/resend ->
\* resend_invitation: nothing is written.
ResendInvitation(user, organization, id) ==
    LET exc == IF AdminGate(user, organization) # "" THEN AdminGate(user, organization)
               ELSE IF ~InvitationFound(organization, id) THEN "NotFound"
               ELSE IF NotPending(invitations[id].status) THEN "ValidationError"
               ELSE ""
    IN  /\ resp' = IF exc # ""
                   THEN OrgFailure("invitation.resend", user, organization, NoRef, id, exc)
                   ELSE OrgResponse("invitation.resend", user, organization, NoRef, id, 200, "")
        /\ UNCHANGED <<members, crmVars, orgVars>>

\* The clock passes the expires_at of an invitation, expires_after days
\* after its creation: from then on Invitation.is_expired returns True for
\* it.  Nothing is written.
ExpiryPasses(id) ==
    /\ id \in Rows(invitations)
    /\ ~invitations[id].expired
    /\ invitations' = [invitations EXCEPT ![id].expired = TRUE]
    /\ UNCHANGED <<members, crmVars, resp, roles, teams, accounts, settings, requests, authVars>>

(***************************************************************************)
(* apps/accounts/views.py: AcceptInvitationView.post                       *)
(*                                                                         *)
(* The view is not wrapped in a transaction (ATOMIC_REQUESTS is not set):  *)
(* each of its database statements is a step of its own, and the steps of  *)
(* different requests interleave.  A frame holds the local variables of    *)
(* one request.                                                            *)
(***************************************************************************)
MaxRequests == 2
RequestIds == 1..MaxRequests

\* The value of `invitation` before the row is loaded.
NoInvitation ==
    [organization |-> None, email |-> None, role |-> None, teams |-> {},
     status |-> None, expires_after |-> 0, expired |-> FALSE, accepted_at |-> FALSE]

Frame(token, user_id, pc, invitation, user, created, status, exc) ==
    [token |-> token, user_id |-> user_id, pc |-> pc, invitation |-> invitation,
     user |-> user, created |-> created, status |-> status, exc |-> exc]

\* The frame of a request that has returned a response.
Return(frame, status, exc) == [frame EXCEPT !.pc = "done", !.status = status, !.exc = exc]

\* Lines 293-306: the invitation is loaded by its token; an unknown token
\* is answered 404, an invitation that is not pending 400.  The view
\* returns these responses itself ("NotFoundResponse", "BadRequest"); it
\* raises no exception for them.  `user_id` is
\* None when the body carries a name and a password instead.
AcceptLoad(r, token, user_id) ==
    /\ r = NewId(requests, RequestIds)
    /\ r # 0
    /\ LET frame == Frame(token, user_id, "loaded",
                          IF token \in Rows(invitations) THEN invitations[token]
                          ELSE NoInvitation,
                          None, FALSE, 0, "")
       IN  requests' = Insert(requests, r,
               IF token \notin Rows(invitations) THEN Return(frame, 404, "NotFoundResponse")
               ELSE IF NotPending(invitations[token].status) THEN Return(frame, 400, "BadRequest")
               ELSE frame)
    /\ UNCHANGED <<members, crmVars, resp, roles, teams, invitations, accounts, settings, authVars>>

\* Lines 308-345.  Invitation.is_expired: the loaded row is saved with
\* status EXPIRED (update_fields = status) and the request is answered 400;
\* the save breaks the uniqueness constraint when an expired invitation of
\* the same organization and e-mail exists already.  Otherwise the user is
\* looked up by user_id and must carry the invitation's e-mail, or is
\* created by create_user with the invitation's e-mail, normalized, which
\* must be free.
AcceptUser(r) ==
    /\ r \in DOMAIN requests
    /\ requests[r].pc = "loaded"
    /\ LET frame == requests[r]
           token == frame.token
           email == frame.invitation.email
       IN  IF invitations[token].expired
           THEN IF InvitationStatusTaken(token, EXPIRED)
                THEN /\ requests' = [requests EXCEPT ![r] = Return(frame, 500, "IntegrityError")]
                     /\ UNCHANGED <<invitations, accounts>>
                ELSE /\ invitations' = [invitations EXCEPT ![token].status = EXPIRED]
                     /\ requests' = [requests EXCEPT ![r] = Return(frame, 400, "BadRequest")]
                     /\ UNCHANGED accounts
           ELSE IF frame.user_id # None
           THEN /\ requests' = [requests EXCEPT ![r] =
                       IF frame.user_id \notin accounts THEN Return(frame, 404, "NotFoundResponse")
                       ELSE IF EmailDiffers(frame.user_id, email) THEN Return(frame, 400, "BadRequest")
                       ELSE [frame EXCEPT !.pc = "user", !.user = frame.user_id]]
                /\ UNCHANGED <<invitations, accounts>>
           ELSE IF normalize_email(email) \in accounts
           THEN /\ requests' = [requests EXCEPT ![r] = Return(frame, 500, "IntegrityError")]
                /\ UNCHANGED <<invitations, accounts>>
           ELSE /\ accounts' = accounts \cup {normalize_email(email)}
                /\ requests' = [requests EXCEPT ![r] =
                       [frame EXCEPT !.pc = "user", !.user = normalize_email(email)]]
                /\ UNCHANGED invitations
    /\ UNCHANGED <<members, crmVars, resp, roles, teams, settings, authVars>>

\* The membership rows of a user in an organization.
MemberRowsOf(organization, user) ==
    {m \in members : m.organization = organization /\ m.user = user}

\* get_or_create, first half (line 348): the SELECT.  A row that is found
\* is the member to update; otherwise the INSERT follows.
AcceptGet(r) ==
    /\ r \in DOMAIN requests
    /\ requests[r].pc = "user"
    /\ requests' = [requests EXCEPT ![r].pc =
           IF MemberRowsOf(requests[r].invitation.organization, requests[r].user) # {}
           THEN "update" ELSE "insert"]
    /\ UNCHANGED <<members, crmVars, resp, roles, teams, invitations, accounts, settings, authVars>>

\* The INSERT of get_or_create without the uniqueness constraint on
\* (organization, user).
insert_member_unconstrained(row) == [conflict |-> FALSE, rows |-> members \cup {row}]

\* The INSERT into OrganizationMember under unique_together =
\* ("organization", "user"): it is refused when the pair has a row.
insert_member(row) ==
    IF MemberRowsOf(row.organization, row.user) # {}
    THEN [conflict |-> TRUE, rows |-> members]
    ELSE [conflict |-> FALSE, rows |-> members \cup {row}]

\* get_or_create, second half: the INSERT with the defaults role =
\* invitation.role, invitation_accepted = True (is_active defaults to
\* True).  When the constraint refuses it, get_or_create reads the row
\* that won and returns it with created = False.
AcceptInsert(r) ==
    /\ r \in DOMAIN requests
    /\ requests[r].pc = "insert"
    /\ LET frame == requests[r]
           inserted == insert_member(
               [organization |-> frame.invitation.organization, user |-> frame.user,
                role |-> frame.invitation.role, is_active |-> TRUE,
                invitation_accepted |-> TRUE])
       IN  /\ members' = inserted.rows
           /\ requests' = [requests EXCEPT ![r] =
                  IF inserted.conflict THEN [frame EXCEPT !.pc = "update"]
                  ELSE [frame EXCEPT !.pc = "teams", !.created = TRUE]]
    /\ UNCHANGED <<crmVars, resp, roles, teams, invitations, accounts, settings, authVars>>

\* Lines 357-362: the member that was not created is saved with the
\* invitation's role, invitation_accepted and is_active set.
AcceptUpdate(r) ==
    /\ r \in DOMAIN requests
    /\ requests[r].pc = "update"
    /\ LET frame == requests[r]
       IN  members' =
               {IF m.organization = frame.invitation.organization /\ m.user = frame.user
                THEN [m EXCEPT !.role = frame.invitation.role,
                               !.invitation_accepted = TRUE, !.is_active = TRUE]
                ELSE m : m \in members}
    /\ requests' = [requests EXCEPT ![r].pc = "teams"]
    /\ UNCHANGED <<crmVars, resp, roles, teams, invitations, accounts, settings, authVars>>

\* Lines 364-385: when the invitation has teams the member's teams are set
\* to them; Invitation.mark_accepted saves status ACCEPTED and accepted_at
\* of the loaded row, which breaks the uniqueness constraint when an
\* accepted invitation of the same organization and e-mail exists already;
\* the tokens are issued and the request is answered 200.
AcceptFinish(r) ==
    /\ r \in DOMAIN requests
    /\ requests[r].pc = "teams"
    /\ LET frame == requests[r]
           token == frame.token
           organization == frame.invitation.organization
       IN  /\ teams' = IF frame.invitation.teams = {} THEN teams
                       ELSE [t \in DOMAIN teams |->
                                IF teams[t].organization # organization THEN teams[t]
                                ELSE IF t \in frame.invitation.teams
                                THEN [teams[t] EXCEPT !.members = @ \cup {frame.user}]
                                ELSE [teams[t] EXCEPT !.members = @ \ {frame.user}]]
           /\ IF InvitationStatusTaken(token, ACCEPTED)
              THEN /\ requests' = [requests EXCEPT ![r] = Return(frame, 500, "IntegrityError")]
                   /\ UNCHANGED invitations
              ELSE /\ invitations' = [invitations EXCEPT ![token] = mark_accepted(@)]
                   /\ requests' = [requests EXCEPT ![r] = Return(frame, 200, "")]
    /\ UNCHANGED <<members, crmVars, resp, roles, accounts, settings, authVars>>

\* The response of a finished request is sent and the request ends.
AcceptRespond(r) ==
    /\ r \in DOMAIN requests
    /\ requests[r].pc = "done"
    /\ resp = NoResponse
    /\ resp' = Response("invitation.accept", requests[r].user, NoRef, NoRef, None,
                        requests[r].token, requests[r].status, requests[r].exc, "",
                        requests[r].invitation.organization, {}, 0)
    /\ requests' = Delete(requests, {r})
    /\ UNCHANGED <<members, crmVars, roles, teams, invitations, accounts, settings, authVars>>

(***************************************************************************)
(* apps/contacts/serializers.py: ContactSerializer                         *)
(***************************************************************************)
\* _get_organization: the organization of the serializer context when the
\* resolver returned one, else the organization of the instance under
\* update (None on create).
get_organization(context, instance) == IF context # None THEN context ELSE instance

\* A relation field (PrimaryKeyRelatedField, then validate_<field>): null
\* passes; an id of no row is rejected; a row of another organization than
\* `organization` is rejected when `organization` is known.
RelationValid(table, value, organization) ==
    \/ value = 0
    \/ /\ value \in Rows(table)
       /\ organization = None \/ table[value].organization = organization

(***************************************************************************)
(* apps/contacts/views.py: ContactViewSet                                  *)
(***************************************************************************)
\* GET /contacts/?company=<id>: the overridden get_queryset, then
\* ContactFilterSet (company = 0 when the filter is not supplied).
ContactList(user, body, query, company) ==
    LET queryset == resolved_get_queryset(contacts, user, body, query)
        resolved == get_request_organization(user, body, query, NoRef)
    IN  /\ resp' =
             IF queryset.exc # ""
             THEN Failure("contact.list", user, body, query, NoRef, 0, queryset.exc, queryset.field)
             ELSE Response("contact.list", user, body, query, NoRef, 0, 200, "", "",
                           resolved.organization,
                           {id \in queryset.ids : company = 0 \/ contacts[id].company = company}, 0)
        /\ UNCHANGED <<orgVars, members, companies, contacts, opportunities, emails, activities, leads>>

\* GET /contacts/<id>/.
ContactRetrieve(user, id, body, query) ==
    LET queryset == resolved_get_queryset(contacts, user, body, query)
        resolved == get_request_organization(user, body, query, NoRef)
    IN  /\ resp' =
             IF queryset.exc # ""
             THEN Failure("contact.retrieve", user, body, query, NoRef, id, queryset.exc, queryset.field)
             ELSE IF id \notin queryset.ids
             THEN Failure("contact.retrieve", user, body, query, NoRef, id, "NotFound", "")
             ELSE Response("contact.retrieve", user, body, query, NoRef, id, 200, "", "",
                           resolved.organization, {id}, 0)
        /\ UNCHANGED <<orgVars, members, companies, contacts, opportunities, emails, activities, leads>>

\* POST /contacts/: the serializer context (resolver), is_valid
\* (validate_company), perform_create.
ContactCreate(user, body, query, company) ==
    LET resolved == get_request_organization(user, body, query, NoRef)
        id == NewId(contacts, ContactIds)
    IN  /\ id # 0
        /\ IF resolved.exc # ""
           THEN /\ resp' = Failure("contact.create", user, body, query, NoRef, 0, resolved.exc, resolved.field)
                /\ UNCHANGED contacts
           ELSE IF ~RelationValid(companies, company, get_organization(resolved.organization, None))
           THEN /\ resp' = Failure("contact.create", user, body, query, NoRef, 0, "ValidationError", "company")
                /\ UNCHANGED contacts
           ELSE IF resolved.organization = None
           THEN /\ resp' = Failure("contact.create", user, body, query, NoRef, 0, "ValidationError", "organization")
                /\ UNCHANGED contacts
           ELSE /\ contacts' = Insert(contacts, id,
                                   [organization |-> perform_create_organization(resolved, body, query),
                                    company |-> company])
                /\ resp' = Response("contact.create", user, body, query, NoRef, 0, 201, "", "",
                                    resolved.organization, {}, id)
        /\ UNCHANGED <<orgVars, members, companies, opportunities, emails, activities, leads>>

\* PUT/PATCH /contacts/<id>/ with a `company`: get_object, the serializer
\* context, is_valid, save.
ContactUpdate(user, id, body, query, company) ==
    LET queryset == resolved_get_queryset(contacts, user, body, query)
        resolved == get_request_organization(user, body, query, NoRef)
    IN  /\ IF queryset.exc # ""
           THEN /\ resp' = Failure("contact.update", user, body, query, NoRef, id, queryset.exc, queryset.field)
                /\ UNCHANGED contacts
           ELSE IF id \notin queryset.ids
           THEN /\ resp' = Failure("contact.update", user, body, query, NoRef, id, "NotFound", "")
                /\ UNCHANGED contacts
           ELSE IF ~RelationValid(companies, company,
                                  get_organization(resolved.organization, contacts[id].organization))
           THEN /\ resp' = Failure("contact.update", user, body, query, NoRef, id, "ValidationError", "company")
                /\ UNCHANGED contacts
           ELSE /\ contacts' = [contacts EXCEPT ![id].company = company]
                /\ resp' = Response("contact.update", user, body, query, NoRef, id, 200, "", "",
                                    resolved.organization, {id}, 0)
        /\ UNCHANGED <<orgVars, members, companies, opportunities, emails, activities, leads>>

\* DELETE /contacts/<id>/.
ContactDestroy(user, id, body, query) ==
    LET queryset == resolved_get_queryset(contacts, user, body, query) IN
    IF queryset.exc # "" \/ id \notin queryset.ids
    THEN /\ resp' = Failure("contact.destroy", user, body, query, NoRef, id,
                            IF queryset.exc # "" THEN queryset.exc ELSE "NotFound", queryset.field)
         /\ UNCHANGED <<orgVars, members, companies, contacts, opportunities, emails, activities, leads>>
    ELSE /\ contacts' = Delete(contacts, {id})
         /\ opportunities' = SetNull(opportunities, "contact", {id})
         /\ activities' = SetNull(activities, "contact", {id})
         /\ leads' = SetNull(leads, "converted_to_contact", {id})
         /\ resp' = Response("contact.destroy", user, body, query, NoRef, id, 204, "", "", None, {}, 0)
         /\ UNCHANGED <<orgVars, members, companies, emails>>

\* The keys of `updates` a bulk update is sent with: none, `company` or
\* `organization` (ContactBulkOperationSerializer takes any dictionary).
UpdateKeys == {"", "company", "organization"}

\* POST /contacts/bulk-update/: the resolver, then
\* get_queryset().filter(id__in=contact_ids, organization=organization)
\* (no row when organization is None), then queryset.update(**updates),
\* which writes the columns as given; a `company` that names no row breaks
\* the foreign key constraint.
ContactBulkUpdate(user, contact_ids, body, query, key, company, organization) ==
    LET resolved == get_request_organization(user, body, query, NoRef)
        base == resolved_get_queryset(contacts, user, body, query)
        queryset == {id \in base.ids \cap contact_ids :
                        contacts[id].organization = resolved.organization}
    IN  /\ contact_ids # {}
        /\ IF resolved.exc # ""
           THEN /\ resp' = Failure("contact.bulk_update", user, body, query, NoRef, 0,
                                   resolved.exc, resolved.field)
                /\ UNCHANGED contacts
           ELSE IF base.exc # ""
           THEN /\ resp' = Failure("contact.bulk_update", user, body, query, NoRef, 0,
                                   base.exc, base.field)
                /\ UNCHANGED contacts
           ELSE IF key = "company" /\ queryset # {} /\ company # 0 /\ company \notin Rows(companies)
           THEN /\ resp' = Failure("contact.bulk_update", user, body, query, NoRef, 0,
                                   "IntegrityError", "")
                /\ UNCHANGED contacts
           ELSE /\ contacts' =
                     [id \in DOMAIN contacts |->
                         IF id \notin queryset \/ key = "" THEN contacts[id]
                         ELSE IF key = "company" THEN [contacts[id] EXCEPT !.company = company]
                         ELSE [contacts[id] EXCEPT !.organization = organization]]
                /\ resp' = Response("contact.bulk_update", user, body, query, NoRef, 0, 200, "", "",
                                    resolved.organization,
                                    IF key = "" THEN {} ELSE queryset, 0)
        /\ UNCHANGED <<orgVars, members, companies, opportunities, emails, activities, leads>>

\* POST /contacts/merge/: ContactMergeSerializer.validate, then both contacts
\* are fetched with get_queryset().get(id=...), whose DoesNotExist nothing
\* catches; the references to the secondary contact are re-pointed to the
\* primary one and the secondary contact is deleted.
ContactMerge(user, primary_id, secondary_id, body, query) ==
    LET queryset == resolved_get_queryset(contacts, user, body, query)
        resolved == get_request_organization(user, body, query, NoRef)
        exc == IF primary_id = secondary_id THEN "ValidationError"
               ELSE IF queryset.exc # "" THEN queryset.exc
               ELSE IF primary_id \notin queryset.ids \/ secondary_id \notin queryset.ids
                    THEN "ServerError"
               ELSE ""
    IN  IF exc # ""
        THEN /\ resp' = Failure("contact.merge", user, body, query, NoRef, primary_id, exc, "")
             /\ UNCHANGED <<orgVars, members, companies, contacts, opportunities, emails, activities, leads>>
        ELSE /\ activities' =
                  [id \in DOMAIN activities |->
                      IF activities[id].contact = secondary_id
                      THEN [activities[id] EXCEPT !.contact = primary_id] ELSE activities[id]]
             /\ opportunities' =
                  [id \in DOMAIN opportunities |->
                      IF opportunities[id].contact = secondary_id
                      THEN [opportunities[id] EXCEPT !.contact = primary_id] ELSE opportunities[id]]
             /\ contacts' = Delete(contacts, {secondary_id})
             /\ leads' = SetNull(leads, "converted_to_contact", {secondary_id})
             /\ resp' = Response("contact.merge", user, body, query, NoRef, primary_id, 200, "", "",
                                 resolved.organization, {primary_id}, 0)
             /\ UNCHANGED <<orgVars, members, companies, emails>>

(***************************************************************************)
(* apps/opportunities/views.py: OpportunityViewSet, the base class as it   *)
(* is, with apps/opportunities/serializers.py: OpportunitySerializer       *)
(***************************************************************************)
\* The first relation field is_valid rejects, "" when it rejects none:
\* validate_company and validate_contact against _get_organization().
OpportunityInvalidField(company, contact, organization) ==
    IF ~RelationValid(companies, company, organization) THEN "company"
    ELSE IF ~RelationValid(contacts, contact, organization) THEN "contact"
    ELSE ""

\* POST /opportunities/.
OpportunityCreate(user, body, query, company, contact) ==
    LET resolved == get_request_organization(user, body, query, NoRef)
        invalid == OpportunityInvalidField(company, contact,
                                           get_organization(resolved.organization, None))
        id == NewId(opportunities, OpportunityIds)
    IN  /\ id # 0
        /\ IF resolved.exc # ""
           THEN /\ resp' = Failure("opportunity.create", user, body, query, NoRef, 0, resolved.exc, resolved.field)
                /\ UNCHANGED opportunities
           ELSE IF invalid # ""
           THEN /\ resp' = Failure("opportunity.create", user, body, query, NoRef, 0, "ValidationError", invalid)
                /\ UNCHANGED opportunities
           ELSE IF resolved.organization = None
           THEN /\ resp' = Failure("opportunity.create", user, body, query, NoRef, 0, "ValidationError", "organization")
                /\ UNCHANGED opportunities
           ELSE /\ opportunities' = Insert(opportunities, id,
                                        [organization |-> perform_create_organization(resolved, body, query),
                                         company |-> company, contact |-> contact])
                /\ resp' = Response("opportunity.create", user, body, query, NoRef, 0, 201, "", "",
                                    resolved.organization, {}, id)
        /\ UNCHANGED <<orgVars, members, companies, contacts, emails, activities, leads>>

\* PUT/PATCH /opportunities/<id>/ with `company` and `contact`: get_object
\* on the base queryset, the serializer context (resolver), is_valid, save.
OpportunityUpdate(user, id, body, query, company, contact) ==
    LET queryset == get_queryset(opportunities, user, query)
        resolved == get_request_organization(user, body, query, NoRef)
        invalid == OpportunityInvalidField(company, contact,
                        get_organization(resolved.organization, opportunities[id].organization))
    IN  /\ IF queryset.exc # ""
           THEN /\ resp' = Failure("opportunity.update", user, body, query, NoRef, id, queryset.exc, queryset.field)
                /\ UNCHANGED opportunities
           ELSE IF id \notin queryset.ids
           THEN /\ resp' = Failure("opportunity.update", user, body, query, NoRef, id, "NotFound", "")
                /\ UNCHANGED opportunities
           ELSE IF resolved.exc # ""
           THEN /\ resp' = Failure("opportunity.update", user, body, query, NoRef, id, resolved.exc, resolved.field)
                /\ UNCHANGED opportunities
           ELSE IF invalid # ""
           THEN /\ resp' = Failure("opportunity.update", user, body, query, NoRef, id, "ValidationError", invalid)
                /\ UNCHANGED opportunities
           ELSE /\ opportunities' = [opportunities EXCEPT ![id].company = company,
                                                          ![id].contact = contact]
                /\ resp' = Response("opportunity.update", user, body, query, NoRef, id, 200, "", "",
                                    resolved.organization, {id}, 0)
        /\ UNCHANGED <<orgVars, members, companies, contacts, emails, activities, leads>>

(***************************************************************************)
(* apps/emails/views.py: EmailViewSet.send_new                             *)
(***************************************************************************)
\* POST /emails/send/: Email.objects.create(organization=<resolver's
\* result>, ...).  The column is NOT NULL (core/models.py), so with no
\* organization resolved the insert raises IntegrityError and stores nothing.
EmailSendNew(user, body, query) ==
    LET resolved == get_request_organization(user, body, query, NoRef)
        id == NewId(emails, EmailIds)
    IN  /\ id # 0
        /\ IF resolved.exc # ""
           THEN /\ resp' = Failure("email.send_new", user, body, query, NoRef, 0, resolved.exc, resolved.field)
                /\ UNCHANGED emails
           ELSE IF resolved.organization = None
           THEN /\ resp' = Failure("email.send_new", user, body, query, NoRef, 0, "IntegrityError", "")
                /\ UNCHANGED emails
           ELSE /\ emails' = Insert(emails, id, [organization |-> resolved.organization])
                /\ resp' = Response("email.send_new", user, body, query, NoRef, 0, 201, "", "",
                                    resolved.organization, {}, id)
        /\ UNCHANGED <<orgVars, members, companies, contacts, opportunities, activities, leads>>

(***************************************************************************)
(* apps/activities/views.py: ActivityViewSet.create                        *)
(***************************************************************************)
\* POST /activities/ about a contact, named either as entity_type/entity_id
\* (by_entity) or as the `contact` field.  With no organization the view
\* answers 400 by itself; an entity_id with no contact in the organization
\* is answered 404; the serializer validates `contact` and requires an
\* entity; save stamps the resolved organization.
ActivityCreate(user, body, query, contact, by_entity) ==
    LET resolved == get_request_organization(user, body, query, NoRef)
        id == NewId(activities, ActivityIds)
        exc == IF resolved.exc # "" THEN resolved.exc
               ELSE IF resolved.organization = None THEN "BadRequest"
               ELSE IF /\ by_entity /\ contact # 0
                       /\ ~(contact \in Rows(contacts)
                            /\ contacts[contact].organization = resolved.organization)
                    THEN "NotFound"
               ELSE IF ~RelationValid(contacts, contact,
                                      get_organization(resolved.organization, None))
                       \/ contact = 0
                    THEN "ValidationError"
               ELSE ""
        field == IF resolved.exc # "" THEN resolved.field
                 ELSE IF exc = "ValidationError" /\ contact # 0 THEN "contact"
                 ELSE ""
    IN  /\ id # 0
        /\ IF exc # ""
           THEN /\ resp' = Failure("activity.create", user, body, query, NoRef, 0, exc, field)
                /\ UNCHANGED activities
           ELSE /\ activities' = Insert(activities, id,
                                     [organization |-> resolved.organization, contact |-> contact])
                /\ resp' = Response("activity.create", user, body, query, NoRef, 0, 201, "", "",
                                    resolved.organization, {}, id)
        /\ UNCHANGED <<orgVars, members, companies, contacts, opportunities, emails, leads>>

(***************************************************************************)
(* apps/leads/views.py: LeadViewSet                                        *)
(***************************************************************************)
\* Lead.Status: the choices of the writable field `status`.
LeadStatuses == {"new", "contacted", "qualified", "unqualified", "converted"}

\* POST /leads/: the base create; LeadSerializer.create reads the
\* organization of the context, and save stamps perform_create's.  `status`
\* is a writable field of LeadSerializer and converted_at a read-only one:
\* the lead is created with the status of the body and no converted_at.
LeadCreateWithStatus(user, body, query, status) ==
    LET resolved == get_request_organization(user, body, query, NoRef)
        id == NewId(leads, LeadIds)
    IN  /\ id # 0
        /\ IF resolved.exc # ""
           THEN /\ resp' = Failure("lead.create", user, body, query, NoRef, 0, resolved.exc, resolved.field)
                /\ UNCHANGED leads
           ELSE IF resolved.organization = None
           THEN /\ resp' = Failure("lead.create", user, body, query, NoRef, 0, "ValidationError", "organization")
                /\ UNCHANGED leads
           ELSE /\ leads' = Insert(leads, id,
                                [organization |-> perform_create_organization(resolved, body, query),
                                 status |-> status, converted_at |-> FALSE,
                                 converted_to_contact |-> 0])
                /\ resp' = Response("lead.create", user, body, query, NoRef, 0, 201, "", "",
                                    resolved.organization, {}, id)
        /\ UNCHANGED <<orgVars, members, companies, contacts, opportunities, emails, activities>>

\* POST /leads/ with a body that carries no status: the default, "new".
LeadCreate(user, body, query) == LeadCreateWithStatus(user, body, query, "new")

\* get_object of the lead views: the lead is looked up in the overridden
\* queryset.
LeadLookup(user, id, body, query) ==
    LET queryset == resolved_get_queryset(leads, user, body, query)
    IN  IF queryset.exc # "" THEN [exc |-> queryset.exc, field |-> queryset.field]
        ELSE IF id \notin queryset.ids THEN [exc |-> "NotFound", field |-> ""]
        ELSE [exc |-> "", field |-> ""]

\* PUT or PATCH /leads/<id>/ with a status in the body: the base update
\* through LeadSerializer.update, which writes the status and leaves the
\* read-only converted_at alone.
LeadUpdate(user, id, body, query, status) ==
    LET found == LeadLookup(user, id, body, query)
    IN  /\ IF found.exc # ""
           THEN /\ resp' = Failure("lead.update", user, body, query, NoRef, id, found.exc, found.field)
                /\ UNCHANGED leads
           ELSE /\ leads' = [leads EXCEPT ![id].status = status]
                /\ resp' = Response("lead.update", user, body, query, NoRef, id, 200, "", "",
                                    leads[id].organization, {}, 0)
        /\ UNCHANGED <<orgVars, members, companies, contacts, opportunities, emails, activities>>

\* update_status, lines 184-189: converted_at is set when the new status
\* is "converted" and the lead has none; otherwise it is kept.
stamp_converted_at(lead, new_status) ==
    IF new_status = "converted" /\ ~lead.converted_at THEN TRUE ELSE lead.converted_at

\* PATCH /leads/<id>/status/ -> update_status.
LeadUpdateStatus(user, id, body, query, new_status) ==
    LET found == LeadLookup(user, id, body, query)
    IN  /\ IF found.exc # ""
           THEN /\ resp' = Failure("lead.status", user, body, query, NoRef, id, found.exc, found.field)
                /\ UNCHANGED leads
           ELSE /\ leads' = [leads EXCEPT ![id].status = new_status,
                                          ![id].converted_at = stamp_converted_at(leads[id], new_status)]
                /\ resp' = Response("lead.status", user, body, query, NoRef, id, 200, "", "",
                                    leads[id].organization, {}, 0)
        /\ UNCHANGED <<orgVars, members, companies, contacts, opportunities, emails, activities>>

\* POST /leads/<id>/convert/ with create_contact left at its default (True):
\* get_object on the overridden queryset, the resolver, a contact saved with
\* organization=<resolver's result> (IntegrityError when there is none),
\* then Lead.mark_converted(contact), which sets the status, converted_at
\* and converted_to_contact.
LeadConvert(user, id, body, query) ==
    LET queryset == resolved_get_queryset(leads, user, body, query)
        resolved == get_request_organization(user, body, query, NoRef)
        contact == NewId(contacts, ContactIds)
    IN  /\ contact # 0
        /\ IF queryset.exc # ""
           THEN /\ resp' = Failure("lead.convert", user, body, query, NoRef, id, queryset.exc, queryset.field)
                /\ UNCHANGED <<orgVars, contacts, leads>>
           ELSE IF id \notin queryset.ids
           THEN /\ resp' = Failure("lead.convert", user, body, query, NoRef, id, "NotFound", "")
                /\ UNCHANGED <<orgVars, contacts, leads>>
           ELSE IF resolved.organization = None
           THEN /\ resp' = Failure("lead.convert", user, body, query, NoRef, id, "IntegrityError", "")
                /\ UNCHANGED <<orgVars, contacts, leads>>
           ELSE /\ contacts' = Insert(contacts, contact,
                                   [organization |-> resolved.organization, company |-> 0])
                /\ leads' = [leads EXCEPT ![id].status = "converted",
                                          ![id].converted_at = TRUE,
                                          ![id].converted_to_contact = contact]
                /\ resp' = Response("lead.convert", user, body, query, NoRef, id, 200, "", "",
                                    resolved.organization, {}, contact)
        /\ UNCHANGED <<orgVars, members, companies, opportunities, emails, activities>>

(***************************************************************************)
(* apps/organizations/services.py: the organizations as created            *)
(***************************************************************************)
\* DEFAULT_ROLE_DEFINITIONS: ensure_default_roles gives every organization
\* the system roles "Admin" and "Staff".  A role is referred to by the name
\* it was created under.
SystemRole(name) == [name |-> name, is_system_role |-> TRUE]

DefaultRoles == [r \in Orgs \X RoleNames |-> SystemRole(r[2])]

\* Every password is the one its account was created with, no reset token
\* has been issued and no reset request is in progress.
InitReset ==
    /\ passwords = [user \in Users |-> InitialPassword]
    /\ reset_tokens = EmptyTable
    /\ resets = EmptyTable

\* Both organizations have their rows and no creation request is in
\* progress.
InitAuth ==
    /\ organizations = Orgs
    /\ creations = EmptyTable
    /\ InitReset

\* Both organizations exist with their default roles, default settings, no
\* team and no invitation; every user has an account; no accept request is
\* in progress.
InitOrganizations ==
    /\ roles = DefaultRoles
    /\ teams = EmptyTable
    /\ invitations = EmptyTable
    /\ accounts = Users
    /\ settings = [organization \in Orgs |-> 0]
    /\ requests = EmptyTable
    /\ InitAuth

(***************************************************************************)
(* The resolver and the membership it reads                                *)
(***************************************************************************)
InitTables ==
    /\ companies = EmptyTable
    /\ contacts = EmptyTable
    /\ opportunities = EmptyTable
    /\ emails = EmptyTable
    /\ activities = EmptyTable
    /\ leads = EmptyTable
    /\ resp = NoResponse
    /\ InitOrganizations

\* Any membership of user C in X, and none or an active one in Y.
InitResolver ==
    /\ \E mx \in MemberChoices("X", "C"), my \in MemberChoices("Y", "C") :
          /\ \A m \in my : m.is_active /\ m.invitation_accepted /\ m.role = "Staff"
          /\ members = mx \cup my
    /\ InitTables

\* One request is served at a time: a handler runs when no response is
\* pending, and the pending response is then rendered and sent.
Idle == resp = NoResponse

Deliver ==
    /\ ~Idle
    /\ resp' = NoResponse
    /\ UNCHANGED <<orgVars, members, companies, contacts, opportunities, emails, activities, leads>>

NextResolver ==
    \/ Deliver
    \/ Idle /\ \E user \in Users, body \in Refs, query \in Refs, kwarg \in Refs :
          DashboardStats(user, body, query, kwarg)
    \/ Idle /\ \E user \in Users, body \in Refs, query \in Refs :
          CompanyList(user, body, query)
    \/ Idle /\ \E user \in Users, organization \in Orgs, member_user \in Users, role \in RoleRefs :
          UpdateMemberRole(user, organization, member_user, role)

SpecResolver == InitResolver /\ [][NextResolver]_vars

(***************************************************************************)
(* Reading and writing companies and contacts across tenants               *)
(***************************************************************************)
\* The organization references a resource request is sent with.
OrgRefs == Orgs \cup {NoRef}

Member(organization, user, role, is_active) ==
    [organization |-> organization, user |-> user, role |-> role,
     is_active |-> is_active, invitation_accepted |-> TRUE]

\* User C is an active member of Y, and of X has no membership, an active
\* one or a deactivated one.
InitScope ==
    /\ \E mx \in {{}, {Member("X", "C", "Staff", TRUE)}, {Member("X", "C", "Admin", FALSE)}} :
          members = mx \cup {Member("Y", "C", "Staff", TRUE)}
    /\ InitTables

NextScope ==
    \/ Deliver
    \/ Idle /\ \E user \in Users, body \in OrgRefs, query \in OrgRefs :
          CompanyCreate(user, body, query)
    \/ Idle /\ \E user \in Users, query \in OrgRefs \cup {Ghost} :
          CompanyList(user, NoRef, query)
    \/ Idle /\ \E user \in Users, id \in CompanyIds, query \in OrgRefs :
          CompanyRetrieve(user, id, NoRef, query)
    \/ Idle /\ \E user \in Users, id \in CompanyIds, query \in OrgRefs :
          CompanyDestroy(user, id, NoRef, query)
    \/ Idle /\ \E user \in Users, body \in OrgRefs, query \in OrgRefs, company \in {0} \cup CompanyIds :
          ContactCreate(user, body, query, company)
    \/ Idle /\ \E user \in Users, query \in OrgRefs \cup {Ghost}, company \in {0} \cup CompanyIds :
          ContactList(user, NoRef, query, company)
    \/ Idle /\ \E user \in Users, id \in ContactIds, query \in OrgRefs :
          ContactRetrieve(user, id, NoRef, query)
    \/ Idle /\ \E user \in Users, id \in ContactIds, body \in OrgRefs, query \in OrgRefs,
                  company \in {0} \cup CompanyIds :
          ContactUpdate(user, id, body, query, company)
    \/ Idle /\ \E user \in Users, id \in ContactIds, query \in OrgRefs :
          ContactDestroy(user, id, NoRef, query)

SpecScope == InitScope /\ [][NextScope]_vars

(***************************************************************************)
(* Creating tenant-owned resources                                         *)
(***************************************************************************)
\* User C is an active member of Y, and of X has no membership or an
\* active one.
InitCreate ==
    /\ \E mx \in {{}, {Member("X", "C", "Staff", TRUE)}} :
          members = mx \cup {Member("Y", "C", "Staff", TRUE)}
    /\ InitTables

NextCreate ==
    \/ Deliver
    \/ Idle /\ \E user \in Users, body \in OrgRefs, query \in OrgRefs :
          ContactCreate(user, body, query, 0)
    \/ Idle /\ \E user \in Users, body \in OrgRefs, query \in OrgRefs :
          EmailSendNew(user, body, query)
    \/ Idle /\ \E user \in Users, body \in OrgRefs, query \in OrgRefs,
                  contact \in {0} \cup ContactIds, by_entity \in BOOLEAN :
          ActivityCreate(user, body, query, contact, by_entity)
    \/ Idle /\ \E user \in Users, body \in OrgRefs, query \in OrgRefs :
          LeadCreate(user, body, query)
    \/ Idle /\ \E user \in Users, id \in LeadIds, body \in OrgRefs, query \in OrgRefs :
          LeadConvert(user, id, body, query)

SpecCreate == InitCreate /\ [][NextCreate]_vars

(***************************************************************************)
(* Writing references between tenant-owned resources                       *)
(***************************************************************************)
\* User C is an active member of both organizations.
InitXref ==
    /\ members = {Member("X", "C", "Staff", TRUE), Member("Y", "C", "Staff", TRUE)}
    /\ InitTables

\* The requests carry the organization reference in the body.
NextXref ==
    \/ Deliver
    \/ Idle /\ \E user \in Users, body \in OrgRefs :
          CompanyCreate(user, body, NoRef)
    \/ Idle /\ \E user \in Users, body \in OrgRefs, company \in {0} \cup CompanyIds :
          ContactCreate(user, body, NoRef, company)
    \/ Idle /\ \E user \in Users, contact_ids \in SUBSET ContactIds, body \in OrgRefs,
                  key \in UpdateKeys, company \in {0} \cup CompanyIds, organization \in Orgs :
          /\ key # "company" => company = 0
          /\ key # "organization" => organization = "X"
          /\ ContactBulkUpdate(user, contact_ids, body, NoRef, key, company, organization)
    \/ Idle /\ \E user \in Users, primary_id \in ContactIds, secondary_id \in ContactIds,
                  body \in OrgRefs :
          ContactMerge(user, primary_id, secondary_id, body, NoRef)
    \/ Idle /\ \E user \in Users, body \in OrgRefs,
                  company \in {0} \cup CompanyIds, contact \in {0} \cup ContactIds :
          OpportunityCreate(user, body, NoRef, company, contact)
    \/ Idle /\ \E user \in Users, id \in OpportunityIds, body \in OrgRefs,
                  company \in {0} \cup CompanyIds, contact \in {0} \cup ContactIds :
          OpportunityUpdate(user, id, body, NoRef, company, contact)

SpecXref == InitXref /\ [][NextXref]_vars

(***************************************************************************)
(* Administering an organization: roles, members, settings, teams and      *)
(* invitations, one request at a time                                      *)
(***************************************************************************)
\* create_organization_with_owner gave X the admin member A (its owner) or
\* B, and Y the admin member B (its owner).  User C has joined X through an
\* invitation, which gave the membership no role, or has not.
InitOrg ==
    /\ \E admin_user \in {"A", "B"},
          joined \in {{}, {Member("X", "C", None, TRUE)}} :
          members = {Member("X", admin_user, "Admin", TRUE), Member("Y", "B", "Admin", TRUE)}
                        \cup joined
    /\ InitTables

\* No accept request is in progress.
Quiet == Idle /\ requests = EmptyTable

\* Requests on organization X: every admin-gated mutation, sent by every
\* user.  B is invited; C is the member the requests name.
NextAdmin ==
    \/ Deliver
    \/ Quiet /\ \E user \in Users : CreateRole(user, "X", "Custom")
    \/ Quiet /\ \E user \in Users : UpdateRole(user, "X", "Custom", "Renamed")
    \/ Quiet /\ \E user \in Users, method \in MemberDetailMethods :
          MemberDetail(user, "X", "C", method)
    \/ Quiet /\ \E user \in Users, role \in {"Admin", "Staff"} :
          UpdateMemberRole(user, "X", "C", <<"X", role>>)
    \/ Quiet /\ \E user \in Users : PatchSettings(user, "X", 1)
    \/ Quiet /\ \E user \in Users : CreateTeam(user, "X", "T")
    \/ Quiet /\ \E user \in Users, team \in TeamIds : UpdateTeam(user, "X", team, {"C"})
    \/ Quiet /\ \E user \in Users, team \in TeamIds : DeleteTeam(user, "X", team)
    \/ Quiet /\ \E user \in Users, team \in TeamIds : AddTeamMembers(user, "X", team, {"C"})
    \/ Quiet /\ \E user \in Users, team \in TeamIds : RemoveTeamMember(user, "X", team, "C")
    \/ Quiet /\ \E user \in Users : SendInvitation(user, "X", "B", {})
    \/ Quiet /\ \E user \in Users, id \in InvitationIds : CancelInvitation(user, "X", id)
    \/ Quiet /\ \E user \in Users, id \in InvitationIds : ResendInvitation(user, "X", id)

SpecAdmin == InitOrg /\ [][NextAdmin]_vars

\* Requests on the roles of both organizations.
NextRoles ==
    \/ Deliver
    \/ Quiet /\ \E user \in Users, organization \in Orgs, name \in RoleNameInputs \cup {NoRef} :
          CreateRole(user, organization, name)
    \/ Quiet /\ \E user \in Users, organization \in Orgs, role \in RoleIds,
                   name \in RoleNameInputs \cup {NoRef} :
          UpdateRole(user, organization, role, name)
    \/ Quiet /\ \E user \in Users, organization \in Orgs, role \in RoleIds,
                   method \in RoleDetailMethods :
          RoleDetail(user, organization, role, method)

SpecRoles == InitOrg /\ [][NextRoles]_vars

\* Requests on the members of both organizations.
NextMembers ==
    \/ Deliver
    \/ Quiet /\ \E user \in Users, organization \in Orgs, member_user \in Users :
          MembersPost(user, organization, member_user)
    \/ Quiet /\ \E user \in Users, organization \in Orgs, member_user \in Users,
                   method \in MemberDetailMethods :
          MemberDetail(user, organization, member_user, method)
    \/ Quiet /\ \E user \in Users, organization \in Orgs, member_user \in Users,
                   role \in RoleRefs :
          UpdateMemberRole(user, organization, member_user, role)

SpecMembers == InitOrg /\ [][NextMembers]_vars

(***************************************************************************)
(* Invitations, one request at a time                                      *)
(***************************************************************************)
\* The tables of the CRM resources are empty and no response is pending.
InitResources ==
    /\ companies = EmptyTable
    /\ contacts = EmptyTable
    /\ opportunities = EmptyTable
    /\ emails = EmptyTable
    /\ activities = EmptyTable
    /\ leads = EmptyTable
    /\ resp = NoResponse

\* X and Y as created, each with its owner as admin member.  A and B have
\* accounts; C has none yet.  Nobody has been invited.
InitInvite ==
    /\ members = {Member("X", "A", "Admin", TRUE), Member("Y", "B", "Admin", TRUE)}
    /\ InitResources
    /\ roles = DefaultRoles
    /\ teams = EmptyTable
    /\ invitations = EmptyTable
    /\ accounts = {"A", "B"}
    /\ settings = [organization \in Orgs |-> 0]
    /\ requests = EmptyTable
    /\ InitAuth

\* The users a request on X comes from: its admin A and the outsider B.
\* B and C are invited.  An accept request names no user, or B, or C.
NextInvite ==
    \/ Deliver
    \/ Quiet /\ \E user \in {"A", "B"}, email \in {"B", "C"} :
          SendInvitation(user, "X", email, {})
    \/ Quiet /\ \E user \in {"A", "B"} : InvitationList(user, "X")
    \/ Quiet /\ \E user \in {"A", "B"}, id \in InvitationIds : InvitationDetail(user, "X", id)
    \/ Quiet /\ \E user \in {"A", "B"}, id \in InvitationIds : CancelInvitation(user, "X", id)
    \/ Quiet /\ \E user \in {"A", "B"}, id \in InvitationIds : ResendInvitation(user, "X", id)
    \/ Quiet /\ \E id \in InvitationIds : ExpiryPasses(id)
    \/ Quiet /\ \E r \in RequestIds, token \in InvitationIds, user_id \in {None, "B", "C"} :
          AcceptLoad(r, token, user_id)
    \/ \E r \in RequestIds : AcceptUser(r)
    \/ \E r \in RequestIds : AcceptGet(r)
    \/ \E r \in RequestIds : AcceptInsert(r)
    \/ \E r \in RequestIds : AcceptFinish(r)
    \/ \E r \in RequestIds : AcceptRespond(r)

SpecInvite == InitInvite /\ [][NextInvite]_vars

(***************************************************************************)
(* Accept requests in parallel                                             *)
(***************************************************************************)
\* As InitInvite, after admin A has created team T in X and has invited B
\* or C to X, with or without the team.
InitAccept ==
    /\ members = {Member("X", "A", "Admin", TRUE), Member("Y", "B", "Admin", TRUE)}
    /\ InitResources
    /\ roles = DefaultRoles
    /\ teams = Insert(EmptyTable, 1, [organization |-> "X", name |-> "T", members |-> {}])
    /\ \E email \in {"B", "C"}, team_ids \in SUBSET {1} :
          invitations = Insert(EmptyTable, 1,
              [organization |-> "X", email |-> email, role |-> None, teams |-> team_ids,
               status |-> PENDING, expires_after |-> InvitationDays,
               expired |-> FALSE, accepted_at |-> FALSE])
    /\ accounts = {"A", "B"}
    /\ settings = [organization \in Orgs |-> 0]
    /\ requests = EmptyTable
    /\ InitAuth

\* Up to MaxRequests accept requests are in progress at a time and their
\* steps interleave with each other, with the admin's cancel and with the
\* passage of time.
NextAccept ==
    \/ Deliver
    \/ \E r \in RequestIds, token \in InvitationIds, user_id \in {None, "B", "C"} :
          AcceptLoad(r, token, user_id)
    \/ \E r \in RequestIds : AcceptUser(r)
    \/ \E r \in RequestIds : AcceptGet(r)
    \/ \E r \in RequestIds : AcceptInsert(r)
    \/ \E r \in RequestIds : AcceptUpdate(r)
    \/ \E r \in RequestIds : AcceptFinish(r)
    \/ \E r \in RequestIds : AcceptRespond(r)
    \/ Idle /\ \E id \in InvitationIds : CancelInvitation("A", "X", id)
    \/ \E id \in InvitationIds : ExpiryPasses(id)

SpecAccept == InitAccept /\ [][NextAccept]_vars

(***************************************************************************)
(* Creation of organizations: RegisterView.post and                        *)
(* OrganizationViewSet.create, both through                                *)
(* services.create_organization_with_owner                                 *)
(*                                                                         *)
(* ATOMIC_REQUESTS is not set.  A statement outside a transaction.atomic   *)
(* block is committed when it returns; the statements of the block take    *)
(* effect together when the block is left without an exception, and not at *)
(* all otherwise.  A frame holds the local variables of one request and    *)
(* the number of statements of the block it has executed.  Any statement   *)
(* may raise a database error (Organization.slug, for one, is a SlugField  *)
(* of at most 50 characters filled from a name of up to 255).              *)
(***************************************************************************)
MaxCreations == 2
CreationIds == 1..MaxCreations

\* request.user.is_superuser
is_superuser(user) == user \in {"A", "B"}

\* The organization whose owner the user is or becomes.
OwnedBy(user) == IF user = "A" THEN "X" ELSE IF user = "B" THEN "Y" ELSE None

CreationFrame(op, user, organization, admin_user, user_created, pc, executed, status, exc) ==
    [op |-> op, user |-> user, organization |-> organization, admin_user |-> admin_user,
     user_created |-> user_created, pc |-> pc, executed |-> executed,
     status |-> status, exc |-> exc]

\* No creation request is in progress for the organization.
NotInCreation(organization) ==
    \A r \in DOMAIN creations : creations[r].organization # organization

\* RegisterView.post, lines 37-39, and RegisterSerializer down to line 59:
\* an e-mail that has an account is refused by validate_email; otherwise
\* User.objects.create_user inserts the user, which is committed at once.
RegisterStart(r, user, failed) ==
    /\ r = NewId(creations, CreationIds)
    /\ r # 0
    /\ OwnedBy(user) # None
    /\ OwnedBy(user) \notin organizations
    /\ NotInCreation(OwnedBy(user))
    /\ LET frame == CreationFrame("auth.register", user, OwnedBy(user), None, FALSE,
                                  "atomic", 0, 0, "")
       IN  IF user \in accounts
           THEN /\ creations' = Insert(creations, r,
                       [frame EXCEPT !.pc = "done", !.status = 400, !.exc = "ValidationError"])
                /\ UNCHANGED accounts
           ELSE IF failed
           THEN /\ creations' = Insert(creations, r,
                       [frame EXCEPT !.pc = "done", !.status = 500, !.exc = "ServerError"])
                /\ UNCHANGED accounts
           ELSE /\ creations' = Insert(creations, r, [frame EXCEPT !.user_created = TRUE])
                /\ accounts' = accounts \cup {user}
    /\ UNCHANGED <<members, crmVars, resp, roles, teams, invitations, settings, requests,
                   organizations, resetVars>>

\* OrganizationViewSet.create, lines 84-88, and
\* OrganizationCreateSerializer.create down to line 128: only a superuser
\* creates an organization, admin_user must be an existing user, the owner
\* is the caller.
OrganizationCreateStart(r, user, admin_user) ==
    /\ r = NewId(creations, CreationIds)
    /\ r # 0
    /\ user \in accounts
    /\ is_superuser(user) => OwnedBy(user) \notin organizations /\ NotInCreation(OwnedBy(user))
    /\ LET frame == CreationFrame("organization.create", user, OwnedBy(user), admin_user, FALSE,
                                  "atomic", 0, 0, "")
       IN  creations' = Insert(creations, r,
               IF ~is_superuser(user)
               THEN [frame EXCEPT !.pc = "done", !.status = 403, !.exc = "PermissionDenied"]
               ELSE IF admin_user \notin accounts
               THEN [frame EXCEPT !.pc = "done", !.status = 400, !.exc = "ValidationError"]
               ELSE frame)
    /\ UNCHANGED <<members, crmVars, resp, roles, teams, invitations, accounts, settings,
                   requests, organizations, resetVars>>

\* The statements of create_organization_with_owner, in order: the
\* organization row, ensure_default_roles (one get_or_create for each of
\* DEFAULT_ROLE_DEFINITIONS), and the membership of admin_user when one is
\* given.
BlockStatements(frame) ==
    <<"organization", "Admin", "Staff">>
        \o (IF frame.admin_user # None THEN <<"member">> ELSE <<>>)

\* The statements the request has executed inside the block.
Executed(frame) == {BlockStatements(frame)[i] : i \in 1..frame.executed}

\* @transaction.atomic: the statements executed in the block take effect
\* when the block returns and are rolled back when it raises.
transaction_atomic(frame, failed) == IF failed THEN {} ELSE Executed(frame)

\* The tables after the statements `written` of a request have taken effect.
OrganizationsWith(frame, written) ==
    organizations \cup (IF "organization" \in written THEN {frame.organization} ELSE {})

SettingsWith(frame, written) ==
    IF "organization" \in written
    THEN [o \in DOMAIN settings \cup {frame.organization} |->
             IF o \in DOMAIN settings THEN settings[o] ELSE 0]
    ELSE settings

RolesWith(frame, written) ==
    LET created == {<<frame.organization, name>> : name \in written \cap RoleNames}
    IN  [k \in DOMAIN roles \cup created |->
            IF k \in DOMAIN roles THEN roles[k] ELSE SystemRole(k[2])]

MembersWith(frame, written) ==
    members \cup (IF "member" \in written
                  THEN {Member(frame.organization, frame.admin_user, "Admin", TRUE)}
                  ELSE {})

\* One statement of create_organization_with_owner (services.py, lines
\* 27-52).  It raises, and the block is left by the exception; or it is the
\* last one, and the block returns; or the next statement follows.
CreateStep(r, failed) ==
    /\ r \in DOMAIN creations
    /\ creations[r].pc = "atomic"
    /\ LET frame == [creations[r] EXCEPT !.executed = @ + (IF failed THEN 0 ELSE 1)]
           leaves == failed \/ frame.executed = Len(BlockStatements(frame))
           written == IF leaves THEN transaction_atomic(frame, failed) ELSE {}
       IN  /\ organizations' = OrganizationsWith(frame, written)
           /\ settings' = SettingsWith(frame, written)
           /\ roles' = RolesWith(frame, written)
           /\ members' = MembersWith(frame, written)
           /\ creations' = [creations EXCEPT ![r] =
                  IF failed THEN [frame EXCEPT !.pc = "done", !.status = 500, !.exc = "ServerError"]
                  ELSE IF leaves THEN [frame EXCEPT !.pc = "committed"]
                  ELSE frame]
    /\ UNCHANGED <<crmVars, resp, teams, invitations, accounts, requests, resetVars>>

\* What follows the block: organization.save() in
\* OrganizationCreateSerializer.create (line 139), or
\* EmailVerificationToken.objects.create in RegisterView.post (line 42);
\* then the response, 201.  Neither statement changes a table of the model.
CreateFinish(r, failed) ==
    /\ r \in DOMAIN creations
    /\ creations[r].pc = "committed"
    /\ creations' = [creations EXCEPT ![r] =
           IF failed THEN [@ EXCEPT !.pc = "done", !.status = 500, !.exc = "ServerError"]
           ELSE [@ EXCEPT !.pc = "done", !.status = 201]]
    /\ UNCHANGED <<members, crmVars, resp, roles, teams, invitations, accounts, settings,
                   requests, organizations, resetVars>>

\* The response of a finished creation request is sent and the request ends.
CreateRespond(r) ==
    /\ r \in DOMAIN creations
    /\ creations[r].pc = "done"
    /\ resp = NoResponse
    /\ resp' = Response(creations[r].op, creations[r].user, NoRef, NoRef, NoRef, 0,
                        creations[r].status, creations[r].exc, "",
                        creations[r].organization, {}, 0)
    /\ creations' = Delete(creations, {r})
    /\ UNCHANGED <<members, crmVars, roles, teams, invitations, accounts, settings, requests,
                   organizations, resetVars>>

\* Organization X exists, with its owner A as admin member, or no
\* organization exists; the owner of X has an account and the other users
\* may have one.
InitCreation ==
    /\ InitResources
    /\ \E existing \in {{}, {"X"}} :
          /\ organizations = existing
          /\ roles = [k \in existing \X RoleNames |-> SystemRole(k[2])]
          /\ settings = [o \in existing |-> 0]
          /\ members = {Member(o, owner_id(o), "Admin", TRUE) : o \in existing}
          /\ \E others \in SUBSET Users :
                accounts = {owner_id(o) : o \in existing} \cup others
    /\ teams = EmptyTable
    /\ invitations = EmptyTable
    /\ requests = EmptyTable
    /\ creations = EmptyTable
    /\ InitReset

\* Registrations and organization creations, up to MaxCreations at a time;
\* their statements interleave and any of them may raise.
NextCreation ==
    \/ Deliver
    \/ \E r \in CreationIds, user \in Users, failed \in BOOLEAN : RegisterStart(r, user, failed)
    \/ \E r \in CreationIds, user \in Users, admin_user \in Users :
          OrganizationCreateStart(r, user, admin_user)
    \/ \E r \in CreationIds, failed \in BOOLEAN : CreateStep(r, failed)
    \/ \E r \in CreationIds, failed \in BOOLEAN : CreateFinish(r, failed)
    \/ \E r \in CreationIds : CreateRespond(r)

SpecCreation == InitCreation /\ [][NextCreation]_vars

(***************************************************************************)
(* Leads and their status                                                  *)
(***************************************************************************)
\* The statuses the requests carry.
LeadStatusInputs == {"new", "qualified", "converted"}

\* User C is an active member of X; A and B own X and Y.
InitLeads ==
    /\ members = {Member("X", "C", "Staff", TRUE)}
    /\ InitTables

NextLeads ==
    \/ Deliver
    \/ Idle /\ \E user \in Users, body \in OrgRefs, status \in LeadStatusInputs :
          LeadCreateWithStatus(user, body, NoRef, status)
    \/ Idle /\ \E user \in Users, id \in LeadIds, status \in LeadStatusInputs :
          LeadUpdate(user, id, NoRef, NoRef, status)
    \/ Idle /\ \E user \in Users, id \in LeadIds, status \in LeadStatusInputs :
          LeadUpdateStatus(user, id, NoRef, NoRef, status)
    \/ Idle /\ \E user \in Users, id \in LeadIds, body \in Orgs :
          LeadConvert(user, id, body, NoRef)

SpecLeads == InitLeads /\ [][NextLeads]_vars

(***************************************************************************)
(* Accept requests and the address an invitation was sent to               *)
(***************************************************************************)
\* As InitAccept, with an invitation to B, to C, or to C's address written
\* with an upper-case domain; C has an account or has none.
InitAddress ==
    /\ members = {Member("X", "A", "Admin", TRUE), Member("Y", "B", "Admin", TRUE)}
    /\ InitResources
    /\ roles = DefaultRoles
    /\ teams = Insert(EmptyTable, 1, [organization |-> "X", name |-> "T", members |-> {}])
    /\ \E email \in {"B", "C", CUpper} :
          invitations = Insert(EmptyTable, 1,
              [organization |-> "X", email |-> email, role |-> None, teams |-> {},
               status |-> PENDING, expires_after |-> InvitationDays,
               expired |-> FALSE, accepted_at |-> FALSE])
    /\ \E registered \in SUBSET {"C"} : accounts = {"A", "B"} \cup registered
    /\ settings = [organization \in Orgs |-> 0]
    /\ requests = EmptyTable
    /\ InitAuth

SpecAddress == InitAddress /\ [][NextAccept]_vars

(***************************************************************************)
(* Soft-disabled memberships                                               *)
(*                                                                         *)
(* OrganizationMember.is_active is read by user_in_organization, by the    *)
(* organization queryset and by the member list, and is written to true by *)
(* the services and by the accept view.  No handler writes it to false     *)
(* (member_detail fails before it saves): a membership is disabled by an   *)
(* administrator in the database.                                          *)
(***************************************************************************)
\* The administrator sets is_active = false on the membership rows of user
\* in organization.
Deactivate(organization, user) ==
    /\ \E m \in MemberRowsOf(organization, user) : m.is_active
    /\ members' = {IF m.organization = organization /\ m.user = user
                   THEN [m EXCEPT !.is_active = FALSE] ELSE m : m \in members}
    /\ UNCHANGED <<crmVars, resp, orgVars>>

\* The accept requests of SpecAccept in parallel, and the administrator of
\* X disabling the membership of an invited user.
NextDisabled ==
    \/ NextAccept
    \/ \E user \in {"B", "C"} : Deactivate("X", user)

SpecDisabled == InitAccept /\ [][NextDisabled]_vars

\* The requests of SpecInvite, one at a time, the update branch of the
\* accept view included, and the administrator of X disabling the
\* membership of an invited user between two requests.
NextDisabledOneAtATime ==
    \/ NextInvite
    \/ \E r \in RequestIds : AcceptUpdate(r)
    \/ Quiet /\ \E user \in {"B", "C"} : Deactivate("X", user)

SpecDisabledOneAtATime == InitInvite /\ [][NextDisabledOneAtATime]_vars

(***************************************************************************)
(* Password reset: ForgotPasswordView.post and ResetPasswordView.post      *)
(*                                                                         *)
(* ResetPasswordView.post runs in no transaction and takes no lock: the    *)
(* serializer's validate reads the token, then the view saves the password *)
(* and then marks the token used, each statement committed when it         *)
(* returns.                                                                *)
(***************************************************************************)
MaxResetTokens == 2
ResetTokenIds == 1..MaxResetTokens

MaxResets == 2
ResetIds == 1..MaxResets

\* ForgotPasswordView.post: when a user has the e-mail, a token is created
\* for the user, unused and not expired (expires_at is a day ahead); the
\* answer is 200 either way.
ForgotPassword(email) ==
    /\ Idle
    /\ email \in accounts => NewId(reset_tokens, ResetTokenIds) # 0
    /\ IF email \in accounts
       THEN reset_tokens' = Insert(reset_tokens, NewId(reset_tokens, ResetTokenIds),
                                   [user |-> email, is_used |-> FALSE, expired |-> FALSE])
       ELSE UNCHANGED reset_tokens
    /\ resp' = Response("auth.forgot", None, NoRef, NoRef, NoRef, 0, 200, "", "", None, {},
                        IF email \in accounts THEN NewId(reset_tokens, ResetTokenIds) ELSE 0)
    /\ UNCHANGED <<members, crmVars, roles, teams, invitations, accounts, settings, requests,
                   organizations, creations, passwords, resets>>

\* Time passes expires_at of an unexpired token.
ResetExpiryPasses(token) ==
    /\ token \in Rows(reset_tokens)
    /\ ~reset_tokens[token].expired
    /\ reset_tokens' = [reset_tokens EXCEPT ![token].expired = TRUE]
    /\ UNCHANGED <<members, crmVars, resp, roles, teams, invitations, accounts, settings,
                   requests, organizations, creations, passwords, resets>>

\* The frame of a reset request: the token and the password of its body,
\* the user of the token it read, where it stands, and its answer.
ResetFrame(token, password, user, pc, status, exc) ==
    [token |-> token, password |-> password, user |-> user, pc |-> pc,
     status |-> status, exc |-> exc]

\* ResetPasswordSerializer.validate: a row has the token with
\* is_used = False, and its expires_at has not passed.
TokenValid(token) ==
    /\ token \in Rows(reset_tokens)
    /\ ~reset_tokens[token].is_used
    /\ ~reset_tokens[token].expired

\* ResetPasswordView.post, lines 134-136: the serializer validates the
\* body and the view takes token_obj; an invalid token is answered 400.
ResetValidate(r, token, password) ==
    /\ r = NewId(resets, ResetIds)
    /\ r # 0
    /\ resets' = Insert(resets, r,
           IF TokenValid(token)
           THEN ResetFrame(token, password, reset_tokens[token].user, "valid", 0, "")
           ELSE ResetFrame(token, password, None, "done", 400, "ValidationError"))
    /\ UNCHANGED <<members, crmVars, resp, roles, teams, invitations, accounts, settings,
                   requests, organizations, creations, passwords, reset_tokens>>

\* Lines 137-139: user.set_password and user.save(update_fields=["password"]).
ResetSave(r) ==
    /\ r \in DOMAIN resets
    /\ resets[r].pc = "valid"
    /\ passwords' = [passwords EXCEPT ![resets[r].user] = resets[r].password]
    /\ resets' = [resets EXCEPT ![r].pc = "saved"]
    /\ UNCHANGED <<members, crmVars, resp, roles, teams, invitations, accounts, settings,
                   requests, organizations, creations, reset_tokens>>

\* Line 140, token.mark_used(): is_used = True is saved; then the answer,
\* 200.
ResetMarkUsed(r) ==
    /\ r \in DOMAIN resets
    /\ resets[r].pc = "saved"
    /\ reset_tokens' = [reset_tokens EXCEPT ![resets[r].token].is_used = TRUE]
    /\ resets' = [resets EXCEPT ![r].pc = "done", ![r].status = 200]
    /\ UNCHANGED <<members, crmVars, resp, roles, teams, invitations, accounts, settings,
                   requests, organizations, creations, passwords>>

\* The response of a finished reset request is sent and the request ends.
ResetRespond(r) ==
    /\ r \in DOMAIN resets
    /\ resets[r].pc = "done"
    /\ resp = NoResponse
    /\ resp' = Response("auth.reset", None, NoRef, NoRef, NoRef, resets[r].token,
                        resets[r].status, resets[r].exc, "", None, {}, 0)
    /\ resets' = Delete(resets, {r})
    /\ UNCHANGED <<members, crmVars, roles, teams, invitations, accounts, settings, requests,
                   organizations, creations, passwords, reset_tokens>>

\* Users A and B ask for reset tokens, as does C, who has no account; up to
\* MaxResets reset requests are in progress at a time, with any token and
\* either password, and their statements interleave.
NextReset ==
    \/ Deliver
    \/ \E email \in Emails : ForgotPassword(email)
    \/ \E token \in ResetTokenIds : ResetExpiryPasses(token)
    \/ \E r \in ResetIds, token \in ResetTokenIds, password \in Passwords :
          ResetValidate(r, token, password)
    \/ \E r \in ResetIds : ResetSave(r)
    \/ \E r \in ResetIds : ResetMarkUsed(r)
    \/ \E r \in ResetIds : ResetRespond(r)

SpecReset == InitInvite /\ [][NextReset]_vars

(***************************************************************************)
(* Properties of the resolver                                              *)
(***************************************************************************)
\* The organization reference a request supplies first in the order body,
\* query parameter, URL path segment; NoRef when it supplies none.
FirstSupplied(r) ==
    IF r.body \notin {NoRef, Empty} THEN r.body
    ELSE IF r.query \notin {NoRef, Empty} THEN r.query
    ELSE IF r.kwarg \notin {NoRef, Empty} THEN r.kwarg
    ELSE NoRef

\* The authorization rule as the specification states it.
Authorized(user, organization) ==
    \/ owner_id(organization) = user
    \/ \E m \in members :
          m.organization = organization /\ m.user = user /\ m.is_active = TRUE

\* The responses that carry the resolver's outcome: the dashboard route,
\* and a company list whose queryset was built.
ResolverAnswered ==
    \/ resp.op = "dashboard.stats"
    \/ resp.op = "company.list" /\ resp.query # Malformed

\* C8: the resolver resolves the earliest non-empty reference among body,
\* query parameter and URL path segment: when that reference names an
\* organization, the outcome is that organization or the refusal of that
\* organization (never another one); when no reference is supplied the
\* outcome is no organization and no error.
C8_ResolverPrecedence ==
    ResolverAnswered =>
        LET first == FirstSupplied(resp) IN
        /\ first = NoRef => resp.exc = "" /\ resp.organization = None
        /\ first \in Orgs =>
              \/ resp.exc = "" /\ resp.organization = first /\ Authorized(resp.user, first)
              \/ resp.exc = "PermissionDenied" /\ ~Authorized(resp.user, first)
        /\ first \notin Orgs \cup {NoRef} => resp.exc \in {"ValidationError", "ServerError"}

\* C8 witness: three different references supplied, the body's wins.
C8_Witness ==
    /\ resp.op = "dashboard.stats"
    /\ resp.body = "X" /\ resp.query = "Y" /\ resp.kwarg = Ghost
    /\ resp.user = "C" /\ resp.status = 200 /\ resp.organization = "X"

\* C9: the resolver fails with NotFound when the supplied reference matches
\* no organization, and with PermissionDenied when the caller is neither
\* owner nor active member of the resolved organization.
C9_ResolverErrors ==
    ResolverAnswered =>
        LET first == FirstSupplied(resp) IN
        /\ first \notin Orgs \cup {NoRef} => resp.exc = "NotFound" /\ resp.status = 404
        /\ first \in Orgs /\ ~Authorized(resp.user, first) =>
              resp.exc = "PermissionDenied" /\ resp.status = 403

\* C10: a caller gets through the resolver for an organization exactly when
\* the caller is its owner or has a membership row with is_active = TRUE;
\* otherwise the request is refused.  Nothing else of the row is read.
C10_AccessIffOwnerOrActiveMember ==
    ResolverAnswered /\ FirstSupplied(resp) \in Orgs =>
        LET organization == FirstSupplied(resp) IN
        /\ resp.status = 200 <=>
              \/ owner_id(organization) = resp.user
              \/ \E m \in members :
                    /\ m.organization = organization
                    /\ m.user = resp.user
                    /\ m.is_active
        /\ resp.status # 200 => resp.status = 403

\* C10 witness: an inactive member with the Admin role and an accepted
\* invitation is refused.
C10_Witness ==
    /\ resp.op = "dashboard.stats" /\ resp.user = "C" /\ FirstSupplied(resp) = "X"
    /\ resp.status = 403
    /\ \E m \in members :
          /\ m.organization = "X" /\ m.user = "C"
          /\ ~m.is_active /\ m.role = "Admin" /\ m.invitation_accepted

(***************************************************************************)
(* Properties of the scoped reads and writes                               *)
(***************************************************************************)
ListOps == {"company.list", "contact.list"}
RetrieveOps == {"company.retrieve", "contact.retrieve"}
ItemOps == RetrieveOps \cup {"company.destroy", "contact.update", "contact.destroy"}

\* The table a request reads or writes.
TableOf(op) ==
    IF op \in {"company.list", "company.retrieve", "company.destroy"}
    THEN companies ELSE contacts

\* C1: whatever the `organization` query parameter and the filters, every
\* row a list or a retrieve returns belongs to an organization the caller
\* owns or is an active member of.
C1_TenantIsolationOfReads ==
    resp.op \in ListOps \cup RetrieveOps =>
        \A id \in resp.rows :
            /\ id \in Rows(TableOf(resp.op))
            /\ Authorized(resp.user, TableOf(resp.op)[id].organization)

\* C1 witness: B, who has access to Y alone, lists contacts with no
\* parameter while X and Y both hold contacts, and gets rows.
C1_Witness ==
    /\ resp.op = "contact.list" /\ resp.user = "B" /\ resp.query = NoRef
    /\ resp.rows # {}
    /\ \E id \in Rows(contacts) : contacts[id].organization = "X"

\* C2: a request of a caller who is neither owner nor active member of the
\* organization of resource R is answered 404 when it retrieves, updates or
\* deletes R, is never answered 403 when it lists, never returns R, and
\* leaves R as it was.
C2_OutsiderGetsNotFound ==
    [][ /\ resp'.op \in ItemOps =>
            LET table == TableOf(resp'.op)
                id == resp'.target
            IN  id \in Rows(table) /\ ~Authorized(resp'.user, table[id].organization) =>
                    /\ resp'.status = 404
                    /\ resp'.rows = {}
                    /\ companies' = companies /\ contacts' = contacts
        /\ resp'.op \in ListOps =>
            LET table == TableOf(resp'.op) IN
            \A id \in Rows(table) :
                /\ ~Authorized(resp'.user, table[id].organization)
                /\ FirstSupplied(resp') \in {NoRef, table[id].organization}
                => resp'.status # 403 /\ id \notin resp'.rows
      ]_vars

\* C3: B has no membership in X, which A owns; when B lists contacts with
\* organization=X the answer is a success with an empty result set.
C3_ScenarioOneEmptyList ==
    /\ resp.op = "contact.list" /\ resp.user = "B" /\ resp.query = "X"
    /\ ~\E m \in members : m.organization = "X" /\ m.user = "B"
    => resp.status = 200 /\ resp.rows = {}

(***************************************************************************)
(* Properties of the creates                                               *)
(***************************************************************************)
CreateOps == {"company.create", "contact.create", "email.send_new",
              "activity.create", "lead.create", "lead.convert"}

\* The table a create adds its row to.
CreatedIn(op) ==
    IF op = "company.create" THEN companies
    ELSE IF op \in {"contact.create", "lead.convert"} THEN contacts
    ELSE IF op = "email.send_new" THEN emails
    ELSE IF op = "activity.create" THEN activities
    ELSE leads

\* C4: the row a create stores carries the organization the resolver
\* resolved for the request (the first reference supplied, body before
\* query), and the caller is owner or active member of it.
C4_CreateStampsResolvedOrganization ==
    resp.op \in CreateOps /\ resp.created # 0 =>
        LET organization == CreatedIn(resp.op)[resp.created].organization IN
        /\ organization = FirstSupplied(resp)
        /\ organization = resp.organization
        /\ Authorized(resp.user, organization)

\* C4 witness: C, a member of both organizations, creates a contact with Y
\* in the body and X in the query string; the contact is stored in Y.
C4_Witness ==
    /\ resp.op = "contact.create" /\ resp.user = "C"
    /\ resp.body = "Y" /\ resp.query = "X"
    /\ resp.created \in Rows(contacts)
    /\ contacts[resp.created].organization = "Y"

\* C5: a create request that supplies no organization reference (for a
\* lead conversion: of a lead the caller can see) fails with a
\* ValidationError on `organization` and stores nothing.
C5_CreateRequiresOrganization ==
    [][ /\ resp'.op \in CreateOps
        /\ FirstSupplied(resp') = NoRef
        /\ resp'.op = "lead.convert" =>
              /\ resp'.target \in Rows(leads)
              /\ Authorized(resp'.user, leads[resp'.target].organization)
        => /\ resp'.exc = "ValidationError"
           /\ resp'.field = "organization"
           /\ resp'.created = 0
           /\ UNCHANGED <<orgVars, companies, contacts, emails, activities, leads>>
      ]_vars

(***************************************************************************)
(* Properties of the references                                            *)
(***************************************************************************)
\* A reference from a row of `organization` into `table` is null or names
\* a row of the same organization.
SameOrganization(table, value, organization) ==
    value # 0 => value \in Rows(table) /\ table[value].organization = organization

\* C6: every reference between tenant-owned rows stays inside one
\* organization: Contact.company, Opportunity.company,
\* Opportunity.contact, Activity.contact.
C6_CrossReferenceInvariant ==
    /\ \A id \in Rows(contacts) :
          SameOrganization(companies, contacts[id].company, contacts[id].organization)
    /\ \A id \in Rows(opportunities) :
          /\ SameOrganization(companies, opportunities[id].company, opportunities[id].organization)
          /\ SameOrganization(contacts, opportunities[id].contact, opportunities[id].organization)
    /\ \A id \in Rows(activities) :
          SameOrganization(contacts, activities[id].contact, activities[id].organization)

\* C7: no request changes the organization of a row that exists before
\* and after it.
C7_OrganizationNeverChanges ==
    [][ /\ \A id \in Rows(companies) \cap Rows(companies') :
              companies'[id].organization = companies[id].organization
        /\ \A id \in Rows(contacts) \cap Rows(contacts') :
              contacts'[id].organization = contacts[id].organization
        /\ \A id \in Rows(opportunities) \cap Rows(opportunities') :
              opportunities'[id].organization = opportunities[id].organization
      ]_vars

(***************************************************************************)
(* Properties of the administration of an organization                     *)
(***************************************************************************)
\* The responses of the admin-gated mutations.
GatedOps ==
    {"role.create", "role.update", "member.update", "member.delete", "member.role",
     "settings.patch", "team.create", "team.update", "team.delete", "team.add_members",
     "team.remove_member", "invitation.send", "invitation.cancel", "invitation.resend"}

\* What an admin-gated mutation may write.
adminVars == <<members, roles, teams, invitations, settings>>

SystemRolesPresent ==
    \A organization \in Orgs, name \in RoleNames :
        /\ <<organization, name>> \in DOMAIN roles
        /\ roles[<<organization, name>>] = SystemRole(name)

\* An admin of the organization has asked update_role to rename a system
\* role.
RenameOfSystemRole ==
    /\ resp.op = "role.update"
    /\ resp.body \in RoleNames
    /\ resp.query # NoRef
    /\ user_is_org_admin(resp.user, resp.kwarg)

\* A user of the organization has asked for the deletion of a system role.
DeleteOfSystemRole ==
    /\ resp.op = "role.delete"
    /\ resp.body \in RoleNames
    /\ user_in_organization(resp.user, resp.kwarg)

\* C12: in every reachable state every organization has the system roles
\* "Admin" and "Staff" with those exact names; every attempt to rename a
\* system role fails with ValidationError and every attempt to delete one
\* fails with PermissionDenied.
C12_SystemRolesProtected ==
    /\ SystemRolesPresent
    /\ RenameOfSystemRole => resp.exc = "ValidationError"
    /\ DeleteOfSystemRole => resp.exc = "PermissionDenied"

\* The part of C12 that holds: the system roles are always there under
\* their names, and update_role refuses to rename one.
SystemRolesKept ==
    /\ SystemRolesPresent
    /\ RenameOfSystemRole => resp.exc = "ValidationError"

\* The active members of an organization that hold a role.
HoldersOf(organization, role) ==
    {m \in members : m.organization = organization /\ m.role = role /\ m.is_active}

\* C13 (scenario 5): when the owner of an organization deletes a role that
\* active members hold, the role is deleted, the role reference of each of
\* those members becomes null, and their memberships remain, still active.
C13_OwnerDeletesAssignedRole ==
    [][ LET organization == resp'.kwarg
            role == resp'.body
        IN  /\ resp'.op = "role.delete"
            /\ resp'.user = owner_id(organization)
            /\ <<organization, role>> \in DOMAIN roles
            /\ HoldersOf(organization, role) # {}
            => /\ <<organization, role>> \notin DOMAIN roles'
               /\ members' = {IF m \in HoldersOf(organization, role)
                              THEN [m EXCEPT !.role = None] ELSE m : m \in members}
      ]_vars

(***************************************************************************)
(* Properties of memberships                                               *)
(***************************************************************************)
\* C14: when an admin asks the member-creation endpoint to add a user who
\* already has a membership in the organization, or the organization's
\* owner, the request fails with ValidationError, and the pair keeps at
\* most one membership row.
C14_DuplicateMemberRejected ==
    /\ resp.op = "member.create"
    /\ user_is_org_admin(resp.user, resp.kwarg)
    /\ resp.body \in MemberUsers(resp.kwarg) \cup {owner_id(resp.kwarg)}
    => /\ resp.exc = "ValidationError"
       /\ Cardinality(MemberRowsOf(resp.kwarg, resp.body)) <= 1

\* The responses of the handlers that modify or remove one membership.
MemberWriteOps == {"member.update", "member.delete", "member.role"}

\* C16: a request of an admin that modifies or removes the membership row
\* of the organization's owner (member PATCH, member DELETE, member role
\* update) fails with PermissionDenied and leaves the memberships as they
\* were.
C16_OwnerMembershipProtected ==
    [][ LET organization == resp'.kwarg IN
        /\ resp'.op \in MemberWriteOps
        /\ resp'.body = owner_id(organization)
        /\ MemberRowsOf(organization, owner_id(organization)) # {}
        /\ user_is_org_admin(resp'.user, organization)
        => /\ resp'.exc = "PermissionDenied"
           /\ UNCHANGED members
      ]_vars

\* The part of C16 that holds: no request on a member changes or removes
\* the membership row of an owner.
OwnerMembershipKept ==
    [][ \A m \in members : m.user = owner_id(m.organization) => m \in members' ]_vars

(***************************************************************************)
(* Properties of invitations                                               *)
(***************************************************************************)
\* An accept request starts in this step: its frame appears.
AcceptStarts(r) == r \notin DOMAIN requests /\ r \in DOMAIN requests'

AcceptOfExpired(r) ==
    /\ r \in DOMAIN requests
    /\ requests[r].pc = "loaded"
    /\ requests'[r].pc # "loaded"
    /\ invitations[requests[r].token].expired

\* C20: a PENDING invitation whose expires_at is in the past keeps status
\* PENDING until an accept attempt is made on it; that attempt sets its
\* status to EXPIRED, fails, and creates no user and no membership; no
\* other step sets an invitation to EXPIRED.
C20_LazyExpiry ==
    [][ /\ \A id \in Rows(invitations) :
              invitations[id].status = PENDING /\ invitations'[id].status = EXPIRED =>
                  \E r \in RequestIds : AcceptOfExpired(r) /\ requests[r].token = id
        /\ \A r \in RequestIds :
              AcceptOfExpired(r) =>
                  /\ invitations'[requests[r].token].status = EXPIRED
                  /\ requests'[r].pc = "done" /\ requests'[r].status >= 400
                  /\ accounts' = accounts
                  /\ members' = members
      ]_vars

\* The part of C20 that holds: only the accept of an expired invitation
\* sets a status to EXPIRED, and such an accept fails and creates no user
\* and no membership.
ExpiryOnlyOnAccept ==
    [][ /\ \A id \in Rows(invitations) :
              invitations[id].status = PENDING /\ invitations'[id].status = EXPIRED =>
                  \E r \in RequestIds : AcceptOfExpired(r) /\ requests[r].token = id
        /\ \A r \in RequestIds :
              AcceptOfExpired(r) =>
                  /\ requests'[r].pc = "done" /\ requests'[r].status >= 400
                  /\ accounts' = accounts
                  /\ members' = members
      ]_vars

(***************************************************************************)
(* Properties of accept requests in parallel                               *)
(***************************************************************************)
\* Every (organization, user) pair has at most one membership row.
OneMembershipPerPair ==
    \A organization \in Orgs, user \in Users :
        Cardinality(MemberRowsOf(organization, user)) <= 1

\* The request r leaves its INSERT in this step, and the pair had a row
\* already: the uniqueness constraint refuses the INSERT.
InsertRefused(r) ==
    /\ r \in DOMAIN requests
    /\ requests[r].pc = "insert"
    /\ requests'[r].pc # "insert"
    /\ MemberRowsOf(requests[r].invitation.organization, requests[r].user) # {}

AcceptSucceeds(r) ==
    /\ r \in DOMAIN requests
    /\ requests[r].pc = "teams"
    /\ requests'[r].pc = "done"
    /\ requests'[r].status = 200

\* C18: when an accept request succeeds, the invited user has an account
\* and exactly one membership row in the invitation's organization, with
\* invitation_accepted and is_active set and the invitation's role; the
\* member's teams are the invitation's teams; the invitation is ACCEPTED
\* with accepted_at set.  A request that uses the token of an ACCEPTED
\* invitation is answered 400.
C18_AcceptEffect ==
    [][ \A r \in RequestIds :
          /\ AcceptSucceeds(r) =>
                LET invitation == requests[r].invitation
                    organization == invitation.organization
                    user == requests[r].user
                    token == requests[r].token
                IN  /\ user = invitation.email /\ user \in accounts'
                    /\ {m \in members' : m.organization = organization /\ m.user = user}
                           = {[organization |-> organization, user |-> user,
                               role |-> invitation.role, is_active |-> TRUE,
                               invitation_accepted |-> TRUE]}
                    /\ {t \in Rows(teams') :
                            teams'[t].organization = organization /\ user \in teams'[t].members}
                           = invitation.teams
                    /\ invitations'[token].status = ACCEPTED
                    /\ invitations'[token].accepted_at
          /\ AcceptStarts(r) /\ requests'[r].token \in Rows(invitations)
                 /\ invitations[requests'[r].token].status = ACCEPTED
             => requests'[r].pc = "done" /\ requests'[r].status = 400
      ]_vars

\* C18 witness: an accept request has succeeded on a membership that
\* existed already, for an invitation that carries a team.
C18_Witness ==
    \E r \in DOMAIN requests :
        /\ requests[r].pc = "done"
        /\ requests[r].status = 200
        /\ ~requests[r].created
        /\ requests[r].invitation.teams # {}
        /\ invitations[requests[r].token].status = ACCEPTED

\* C19: of the accept requests that carry one token at most one completes
\* successfully, and a request that is rejected has created no membership.
C19_TokenSingleUse ==
    /\ \A token \in InvitationIds :
          Cardinality({r \in DOMAIN requests :
                          /\ requests[r].token = token
                          /\ requests[r].pc = "done"
                          /\ requests[r].status = 200}) <= 1
    /\ \A r \in DOMAIN requests :
          requests[r].pc = "done" /\ requests[r].status >= 400 => ~requests[r].created

PendingFor(organization, email) ==
    {id \in Rows(invitations) :
        /\ invitations[id].organization = organization
        /\ invitations[id].email = email
        /\ invitations[id].status = PENDING}

\* Every (organization, e-mail) pair has at most one pending invitation.
OnePendingPerEmail ==
    \A organization \in Orgs, email \in Emails :
        Cardinality(PendingFor(organization, email)) <= 1

OrganizationComplete(organization) ==
    /\ organization \in organizations
    /\ \A name \in RoleNames : <<organization, name>> \in DOMAIN roles
    /\ organization \in DOMAIN settings

\* Nothing of the organization exists: no row, no role, no membership.
OrganizationAbsent(organization) ==
    /\ organization \notin organizations
    /\ \A k \in DOMAIN roles : k[1] # organization
    /\ \A m \in members : m.organization # organization
    /\ organization \notin DOMAIN settings

\* The creation request r fails in this step.
CreationFails(r) ==
    /\ r \in DOMAIN creations'
    /\ creations'[r].pc = "done"
    /\ creations'[r].status >= 400
    /\ r \in DOMAIN creations => creations[r].pc # "done"

\* The user has a membership row in the organization, or no user is meant.
MembershipCreated(organization, user) ==
    user # None => \E m \in members : m.organization = organization /\ m.user = user

\* C23: every organization that exists has its default roles, and an
\* organization that does not exist has no role and no membership; when a
\* registration or an organization creation fails at any step, either
\* everything it was to create exists (the organization with its default
\* roles, and the membership of admin_user when one was given) or nothing
\* of it does, the user a registration created included.
C23_OrganizationCreationAtomic ==
    [][ /\ \A organization \in Orgs :
              OrganizationComplete(organization)' \/ OrganizationAbsent(organization)'
        /\ \A r \in CreationIds, organization \in Orgs, admin_user \in Users \cup {None} :
              /\ CreationFails(r)
              /\ creations'[r].organization = organization
              /\ creations'[r].admin_user = admin_user
              => \/ /\ OrganizationAbsent(organization)'
                    /\ ~creations'[r].user_created
                 \/ /\ OrganizationComplete(organization)'
                    /\ MembershipCreated(organization, admin_user)'
      ]_vars

\* The part of C23 that holds: the organization row, its default roles and
\* the membership of admin_user take effect together or not at all.
OrganizationBlockAtomic ==
    [][ /\ \A organization \in Orgs :
              OrganizationComplete(organization)' \/ OrganizationAbsent(organization)'
        /\ \A r \in CreationIds, organization \in Orgs, admin_user \in Users \cup {None} :
              /\ CreationFails(r)
              /\ creations'[r].organization = organization
              /\ creations'[r].admin_user = admin_user
              => \/ OrganizationAbsent(organization)'
                 \/ /\ OrganizationComplete(organization)'
                    /\ MembershipCreated(organization, admin_user)'
      ]_vars

(***************************************************************************)
(* Properties of the response envelope                                     *)
(***************************************************************************)
\* C24: every response with a success status is rendered with success true
\* and a message, and every response with a 4xx status, whether the view
\* raised an exception or returned the response itself, is rendered with
\* success false and an error code and message.
C24_ResponseEnvelope ==
    resp # NoResponse =>
        /\ resp.status \in 200..299 => render(resp).success /\ render(resp).message # ""
        /\ resp.status \in 400..499 =>
              /\ ~render(resp).success
              /\ render(resp).code # ""
              /\ render(resp).message # ""

\* The part of C24 that holds: a response with a success status is
\* rendered with success true, and the response to an exception that the
\* exception handler handles is rendered with success false, a code and a
\* message.
EnvelopeOfRaisedErrors ==
    resp # NoResponse =>
        /\ resp.status \in 200..299 => render(resp).success /\ render(resp).message # ""
        /\ resp.exc \in HandledExceptions =>
              /\ resp.status \in 400..499
              /\ ~render(resp).success
              /\ render(resp).code # ""
              /\ render(resp).message # ""

(***************************************************************************)
(* Properties of leads                                                     *)
(***************************************************************************)
\* C25: after any sequence of lead operations (create, update, partial
\* update, status update, convert) every lead whose status is "converted"
\* has a converted_at.
C25_ConvertedLeadHasTimestamp ==
    \A id \in Rows(leads) : leads[id].status = "converted" => leads[id].converted_at

\* The part of C25 that holds: a status update or a conversion that leaves
\* a lead with the status "converted" leaves it with a converted_at, and no
\* operation removes a converted_at.
ConversionSetsTimestamp ==
    [][ /\ resp'.op \in {"lead.status", "lead.convert"} /\ resp'.status = 200
               /\ leads'[resp'.target].status = "converted"
           => leads'[resp'.target].converted_at
        /\ \A id \in Rows(leads) : leads[id].converted_at => leads'[id].converted_at
      ]_vars

(***************************************************************************)
(* Properties of the membership predicates                                 *)
(***************************************************************************)
\* C26: in every reachable state, for every user and every organization,
\* the organization is in organization_ids_for_user(user) if and only if
\* user_in_organization(user, organization) holds: the scope of list and
\* retrieve and the access check of the resolver agree on the
\* organizations a caller may touch.
C26_MembershipPredicatesAgree ==
    \A user \in Users, organization \in Orgs :
        organization \in organization_ids_for_user(user)
            <=> user_in_organization(user, organization)

\* C26 witness: user C, whose membership of X is deactivated and whose
\* membership of Y is active, has listed companies; both predicates leave X
\* out and let Y in.
C26_Witness ==
    /\ resp.op = "company.list"
    /\ resp.user = "C"
    /\ \E m \in members : m.organization = "X" /\ m.user = "C" /\ ~m.is_active
    /\ "X" \notin organization_ids_for_user("C") /\ ~user_in_organization("C", "X")
    /\ "Y" \in organization_ids_for_user("C") /\ user_in_organization("C", "Y")

(***************************************************************************)
(* Properties of cancel and expiry under the uniqueness constraint         *)
(***************************************************************************)
\* C27: whatever invitations were sent to the same e-mail in the same
\* organization before, an admin's cancel of a PENDING invitation is
\* answered 200 and leaves it CANCELLED, and an accept attempt on a PENDING
\* invitation whose expires_at is in the past leaves it EXPIRED; the
\* uniqueness constraint on (organization, email, status) rejects neither.
C27_CancelAndExpiryComplete ==
    [][ /\ resp'.op = "invitation.cancel"
               /\ InvitationFound(resp'.kwarg, resp'.target)
               /\ user_is_org_admin(resp'.user, resp'.kwarg)
               /\ invitations[resp'.target].status = PENDING
           => /\ resp'.status = 200
              /\ invitations'[resp'.target].status = CANCELLED
        /\ \A r \in RequestIds :
              AcceptOfExpired(r) /\ invitations[requests[r].token].status = PENDING
              => /\ invitations'[requests[r].token].status = EXPIRED
                 /\ requests'[r].exc # "IntegrityError"
      ]_vars

\* The part of C27 that holds: an admin's cancel of a PENDING invitation
\* and the expiry of an overdue one complete when no invitation of the same
\* organization and e-mail has the new status already.
CancelAndExpiryCompleteOnce ==
    [][ /\ resp'.op = "invitation.cancel"
               /\ InvitationFound(resp'.kwarg, resp'.target)
               /\ user_is_org_admin(resp'.user, resp'.kwarg)
               /\ invitations[resp'.target].status = PENDING
               /\ ~InvitationStatusTaken(resp'.target, CANCELLED)
           => /\ resp'.status = 200
              /\ invitations'[resp'.target].status = CANCELLED
        /\ \A r \in RequestIds :
              AcceptOfExpired(r) /\ invitations[requests[r].token].status = PENDING
                  /\ ~InvitationStatusTaken(requests[r].token, EXPIRED)
              => invitations'[requests[r].token].status = EXPIRED
      ]_vars

(***************************************************************************)
(* Properties of the invited address                                       *)
(***************************************************************************)
\* The accept request r creates or updates a membership in this step.
AcceptWritesMember(r) ==
    /\ r \in DOMAIN requests
    /\ requests[r].pc \in {"insert", "update"}
    /\ requests'[r] # requests[r]
    /\ members' # members

\* C28 as stated: for every successful accept, the user who receives the
\* membership and the credentials has exactly the invitation's e-mail, and
\* no membership is written for a user with any other e-mail.
C28_ExactlyInvitedEmail ==
    [][ \A r \in RequestIds :
          /\ AcceptSucceeds(r) => requests[r].user = requests[r].invitation.email
          /\ AcceptWritesMember(r) => requests[r].user = requests[r].invitation.email
      ]_vars

\* C28, amended: for every successful accept, the user who receives the
\* membership and the credentials has the invitation's e-mail up to the
\* case of its domain part (which create_user puts in lower case): an
\* existing user named by user_id has exactly the invitation's e-mail, and
\* one with a different e-mail is refused with status 400 and no membership
\* written; a new user is created with the invitation's e-mail normalized;
\* no membership is written for any other user.
C28_InvitedAddressOnly ==
    [][ \A r \in RequestIds :
          /\ AcceptSucceeds(r) =>
                /\ requests[r].user = normalize_email(requests[r].invitation.email)
                /\ requests[r].user_id # None => requests[r].user = requests[r].invitation.email
          /\ AcceptWritesMember(r) =>
                /\ requests[r].user = normalize_email(requests[r].invitation.email)
                /\ \A m \in members' \ members : m.user = requests[r].user
          /\ r \in DOMAIN requests /\ requests[r].pc = "loaded"
                 /\ ~invitations[requests[r].token].expired
                 /\ requests[r].user_id \in accounts
                 /\ requests[r].user_id # requests[r].invitation.email
                 /\ requests'[r] # requests[r]
             => /\ requests'[r].pc = "done"
                /\ requests'[r].status = 400
                /\ UNCHANGED members
      ]_vars

\* C28 witness: an accept without user_id has succeeded on an invitation
\* whose e-mail is written with an upper-case domain; the user it created
\* carries the normalized address and has the membership.
C28_Witness ==
    \E r \in DOMAIN requests :
        /\ requests[r].pc = "done"
        /\ requests[r].status = 200
        /\ requests[r].user_id = None
        /\ requests[r].invitation.email = CUpper
        /\ requests[r].user = "C"
        /\ MemberRowsOf("X", "C") # {}
        /\ "C" \in accounts

(***************************************************************************)
(* Properties of soft-disabled memberships                                 *)
(***************************************************************************)
\* C29: once a membership has is_active = false, no step taken without
\* admin rights on its organization (the steps of the public accept
\* endpoint in particular) sets it back to is_active = true or changes its
\* role: the row is the same after every step.  (The only step of an
\* admin here, the cancel of an invitation, writes no membership, and the
\* administrator's step only disables.)
C29_DisabledStaysDisabled ==
    [][ \A m \in members : ~m.is_active => m \in members' ]_vars

\* With one request served at a time, a disabled membership stays as it
\* is: the accept view never finds a membership of the invited user.
DisabledStaysDisabledOneAtATime ==
    [][ /\ \A m \in members : ~m.is_active => m \in members'
        /\ \A r \in RequestIds : ~ENABLED AcceptUpdate(r) ]_vars

\* A membership of X is disabled while an invitation exists for its user.
DisabledMemberReached ==
    \E m \in members : m.organization = "X" /\ ~m.is_active

(***************************************************************************)
(* Properties of password reset tokens                                     *)
(***************************************************************************)
\* The reset request r starts in this step and passes validation.
ResetAdmitted(r) ==
    /\ r \notin DOMAIN resets
    /\ r \in DOMAIN resets'
    /\ resets'[r].pc = "valid"

\* The reset request r saves its password in this step.
ResetChangesPassword(r) ==
    /\ r \in DOMAIN resets
    /\ resets[r].pc = "valid"
    /\ resets'[r].pc = "saved"

\* The reset request r has saved its password.
ResetChanged(r) ==
    /\ r \in DOMAIN resets
    /\ \/ resets[r].pc = "saved"
       \/ resets[r].pc = "done" /\ resets[r].status = 200

\* A reset request is admitted only with a token that exists, is unused
\* and has not expired; a request with any other token is answered 400 and
\* leaves the passwords as they are; a request that answers 200 leaves its
\* token used.
ResetTokenChecked ==
    [][ \A r \in ResetIds :
          /\ ResetAdmitted(r) => TokenValid(resets'[r].token)
          /\ r \notin DOMAIN resets /\ r \in DOMAIN resets' /\ ~TokenValid(resets'[r].token)
             => /\ resets'[r].pc = "done"
                /\ resets'[r].status = 400
                /\ UNCHANGED <<passwords, reset_tokens>>
          /\ r \in DOMAIN resets /\ resets[r].pc = "saved" /\ resets'[r] # resets[r]
             => /\ resets'[r].status = 200
                /\ reset_tokens'[resets[r].token].is_used
      ]_vars

\* C30: password-reset tokens are single-use and time-limited.  A reset is
\* admitted only with a token that exists, has is_used = false and has not
\* passed expires_at; once a reset with a token has succeeded the token is
\* used and no later reset with it changes the password; and of the reset
\* requests in progress with one token, at most one changes the password.
C30_ResetTokenSingleUse ==
    [][ \A r \in ResetIds :
          /\ ResetAdmitted(r) => TokenValid(resets'[r].token)
          /\ ResetChangesPassword(r) =>
                /\ ~reset_tokens[resets[r].token].is_used
                /\ \A other \in ResetIds \ {r} :
                      ~(ResetChanged(other) /\ resets[other].token = resets[r].token)
      ]_vars

\* Two reset requests with the same token have both saved their passwords.
TwoResetsChanged ==
    \E r1, r2 \in DOMAIN resets :
        /\ r1 # r2
        /\ resets[r1].token = resets[r2].token
        /\ ResetChanged(r1) /\ ResetChanged(r2)

====
